---- MODULE Spec2Model ----
(***************************************************************************)
(* Model of downtime-debugging/spot-termination.py: the enrichment of      *)
(* spot-instance termination events.                                       *)
(*                                                                         *)
(* The script is one synchronous pass.  Its position is pc:                *)
(*   fetch  -> now -> filter -> region -> count* -> enrich* -> save -> done *)
(* and "crashed" once an exception has left the module body.               *)
(*                                                                         *)
(* Timestamps are milliseconds, prices are micro-dollars, an optional     *)
(* value (Python None) is a sequence of length at most one.               *)
(*                                                                         *)
(* The provider (EC2) is the environment: what it answers to every call    *)
(* of a run is fixed when the run starts (provider, clock, faults,         *)
(* price_feed) and the script never writes it.                             *)
(*                                                                         *)
(* The second part models migration/s3-json-download.py and                *)
(* migration/s3-upload-json.py: a bucket is saved as one JSON file per     *)
(* object, and the JSON files are then put into a bucket.  Its position is *)
(* mpc:  idle | list -> download* -> downloaded -> upload* -> uploaded     *)
(* and "failed" once the listing has raised.  Bytes are 0..255, a text is  *)
(* the sequence of its code points.                                        *)
(***************************************************************************)
EXTENDS Integers, Sequences, FiniteSets, TLC

VARIABLES
    provider,             \* answer of describe_spot_instance_requests
    clock,                \* what datetime.now(timezone.utc) reads at line 196
    faults,               \* the provider calls that raise: <<k, lookup>>, k the
                          \* k-th enriched event, <<0, "fetch">> the batch listing
    price_feed,           \* answer of describe_spot_price_history, as returned
    pc,                   \* position of the script
    error,                \* the call whose exception ended the run, or "none"
    spot_requests,        \* line 195
    now,                  \* line 196
    cutoff_time,          \* line 197
    recent_terminated,    \* lines 200-203
    region_demand_score,  \* line 206
    az_counter,           \* lines 209-212: dict zone -> count
    i,                    \* index of the counting loop, line 210
    j,                    \* index of the enrichment loop, line 216
    termination_logs,     \* line 215, 220
    az_calls,             \* number of describe_availability_zones calls made
    file,                 \* content of spot_termination_data.json, <<>> = not written
    bucket,               \* the source bucket: its objects in listing order
    s3_faults,            \* the S3 calls that raise: <<"list", 0>>, <<"get", k>> for
                          \* the k-th listed object, <<"put", k>> for the k-th upload
    mpc,                  \* position of the migration
    objects,              \* download_all_objects: the keys listed
    object_index,         \* download_all_objects: index of the download loop
    directories,          \* the directories os.makedirs has created under local_dir
    local_dir,            \* the JSON files under local_dir: file name -> content
    downloaded_files,     \* download_all_objects: paths written
    failed_downloads,     \* download_all_objects: keys that failed
    json_files,           \* upload_all_objects: the JSON files still to upload
    target_bucket,        \* the put_object calls the target bucket received
    uploaded_keys,        \* upload_all_objects
    failed_files          \* upload_all_objects

env  == <<provider, clock, faults, price_feed>>
migration == <<bucket, s3_faults, mpc, objects, object_index, directories, local_dir,
               downloaded_files, failed_downloads, json_files, target_bucket,
               uploaded_keys, failed_files>>
enrichment == <<provider, clock, faults, price_feed, pc, error, spot_requests, now,
                cutoff_time, recent_terminated, region_demand_score, az_counter,
                i, j, termination_logs, az_calls, file>>
vars == <<provider, clock, faults, price_feed, pc, error, spot_requests, now,
          cutoff_time, recent_terminated, region_demand_score, az_counter,
          i, j, termination_logs, az_calls, file, bucket, s3_faults, mpc, objects,
          object_index, directories, local_dir, downloaded_files, failed_downloads, json_files,
          target_bucket, uploaded_keys, failed_files>>

----------------------------------------------------------------------------
(* Python values *)

None == <<>>

Some(x) == <<x>>

\* d.get(k, default) of a dict modelled as a function
DictGet(d, k, default) == IF k \in DOMAIN d THEN d[k] ELSE default

\* d[k] = v of a dict modelled as a function
DictPut(d, k, v) == [x \in DOMAIN d \cup {k} |-> IF x = k THEN v ELSE d[x]]

EmptyDict == [x \in {} |-> 0]

----------------------------------------------------------------------------
(* Configuration *)

LOOKBACK_MINUTES == 180

\* timedelta(minutes=LOOKBACK_MINUTES), in milliseconds
LookbackDelta == LOOKBACK_MINUTES * 60 * 1000

\* timedelta(hours=1), in milliseconds
PopularityDelta == 1 * 60 * 60 * 1000

region == "ap-south-1"

----------------------------------------------------------------------------
(* The provider's data *)

InstanceTypes == {"t3.micro", "m5.large"}

Zones == {"ap-south-1a", "ap-south-1b"}

\* Status codes as the words between their hyphens
CodeTerminatedNoCapacity == <<"instance", "terminated", "no", "capacity">>
CodeFulfilled == <<"fulfilled">>
CodeMarkedForTermination == <<"marked", "for", "termination">>
CodeTerminatedByUser == <<"instance", "terminated", "by", "user">>

\* 'terminated' in req['Status']['Code']
HasTerminated(code) == \E k \in 1..Len(code) : code[k] = "terminated"

\* One element of response['SpotInstanceRequests']
Request(id, itype, az, create, update, code) ==
    [ SpotInstanceRequestId    |-> id,
      InstanceId               |-> Some(id),
      InstanceType             |-> itype,
      LaunchedAvailabilityZone |-> az,
      SpotPrice                |-> 45000,
      CreateTime               |-> create,
      UpdateTime               |-> update,
      StatusCode               |-> code,
      Type                     |-> "one-time" ]

\* describe_availability_zones: ZoneName -> ZoneId
ZoneIdOf == [z \in {Some(a) : a \in Zones} |->
                IF z = Some("ap-south-1a") THEN "aps1-az1" ELSE "aps1-az3"]

\* describe_instance_types: NetworkInfo.NetworkPerformance
NetworkPerformanceOf(itype) ==
    IF itype = "t3.micro" THEN "Up to 5 Gigabit" ELSE "Up to 10 Gigabit"

\* describe_instance_types: NetworkInfo.DefaultNetworkCardIndex (m5.large's answer
\* carries no such key)
DefaultNetworkCardIndexOf(itype) ==
    IF itype = "t3.micro" THEN Some(0) ELSE None

\* describe_instance_types: SupportedUsageClasses (m5.large's answer carries no such key)
SupportedUsageClassesOf(itype) ==
    IF itype = "t3.micro" THEN Some(<<"on-demand", "spot">>) ELSE None

\* describe_instance_type_offerings: InstanceTypeOfferings is non-empty
HasOffering(itype, az) == az = Some("ap-south-1a") \/ itype = "t3.micro"

\* One element of response['SpotPriceHistory']
PriceSample(ts, price) == [Timestamp |-> ts, SpotPrice |-> price]

----------------------------------------------------------------------------
(* The functions of the script *)

\* sorted(seq, key=lambda x: x['Timestamp']): stable insertion by timestamp
RECURSIVE InsertByTimestamp(_, _)
InsertByTimestamp(sorted, x) ==
    IF sorted = <<>> THEN <<x>>
    ELSE IF sorted[Len(sorted)].Timestamp <= x.Timestamp THEN Append(sorted, x)
    ELSE Append(InsertByTimestamp(SubSeq(sorted, 1, Len(sorted) - 1), x),
                sorted[Len(sorted)])

RECURSIVE SortedByTimestamp(_)
SortedByTimestamp(seq) ==
    IF seq = <<>> THEN <<>>
    ELSE InsertByTimestamp(SortedByTimestamp(SubSeq(seq, 1, Len(seq) - 1)),
                           seq[Len(seq)])

\* Faulty get_spot_price_history: the response is returned as it came
get_spot_price_history_unsorted(response) == response

\* get_spot_price_history, when the call answers
get_spot_price_history(response) == SortedByTimestamp(response)

\* get_network_performance: (NetworkPerformance, DefaultNetworkCardIndex)
get_network_performance(instance_type, raises) ==
    IF raises THEN <<None, None>>
    ELSE <<Some(NetworkPerformanceOf(instance_type)),
           DefaultNetworkCardIndexOf(instance_type)>>

\* Faulty get_cpu_credit_type: the except branch returns the default usage class
get_cpu_credit_type_default_on_error(instance_type, raises) ==
    IF raises THEN "standard"
    ELSE IF SupportedUsageClassesOf(instance_type) = None THEN "standard"
    ELSE SupportedUsageClassesOf(instance_type)[1][1]

\* get_cpu_credit_type
get_cpu_credit_type(instance_type, raises) ==
    IF raises THEN "unknown"
    ELSE IF SupportedUsageClassesOf(instance_type) = None THEN "standard"
    ELSE SupportedUsageClassesOf(instance_type)[1][1]

\* get_pool_utilization_class
get_pool_utilization_class(instance_type, az, raises) ==
    IF raises THEN "unknown"
    ELSE IF HasOffering(instance_type, az) THEN "available" ELSE "unavailable"

\* az_id_mapping.get(az)
az_id_of(az) == IF az \in DOMAIN ZoneIdOf THEN Some(ZoneIdOf[az]) ELSE None

\* Faulty rounding: the minutes are cut after the second decimal
UptimeMinutes_truncated(millis) == millis \div 600

\* round(total_seconds() / 60, 2), in hundredths of a minute.  A duration half-way
\* between two hundredths (300 ms modulo 600) is rounded as its float happens to
\* lie; the runs of this model hold no such duration.
UptimeMinutes(millis) == (millis + 300) \div 600

\* Faulty classes: the boundary values fall in the lower class
UptimeClass_inclusive(uptime_minutes) ==
    IF uptime_minutes <= 30 * 100 THEN "VeryShort"
    ELSE IF uptime_minutes <= 120 * 100 THEN "Short" ELSE "Long"

\* "VeryShort" if uptime_minutes < 30 else "Short" if uptime_minutes < 120 else "Long"
UptimeClass(uptime_minutes) ==
    IF uptime_minutes < 30 * 100 THEN "VeryShort"
    ELSE IF uptime_minutes < 120 * 100 THEN "Short" ELSE "Long"

\* Faulty flag: the uptime is compared with the minutes of a day
is_short_lived_within_day(uptime_minutes) == uptime_minutes < 24 * 60 * 100

\* Faulty is_short_lived: derived from the class
is_short_lived_from_class(uptime_minutes) == UptimeClass(uptime_minutes) # "Long"

\* is_short_lived, line 141
is_short_lived(uptime_minutes) == uptime_minutes < 60 * 100

\* The sum of a sequence of integers
RECURSIVE SumSeq(_)
SumSeq(seq) ==
    IF seq = <<>> THEN 0 ELSE seq[1] + SumSeq(SubSeq(seq, 2, Len(seq)))

\* The integer part of the square root of n, by Newton's iteration from x
RECURSIVE ISqrtFrom(_, _)
ISqrtFrom(n, x) ==
    LET y == (x + n \div x) \div 2
    IN  IF y >= x THEN x ELSE ISqrtFrom(n, y)

ISqrt(n) == IF n = 0 THEN 0 ELSE ISqrtFrom(n, n)

\* x ** 0.5 rounded to the nearest integer, x = num / den: the integer part of
\* (sqrt(4 num / den) + 1) / 2.  (A root half-way between two integers would
\* be rounded as its float happens to lie; it takes a number of samples
\* divisible by 4 and an odd sum of squares.)
RoundedSqrt(num, den) == (ISqrt((4 * num) \div den) + 1) \div 2

\* float(prices[-1]) if prices else spot_price, line 134
spot_price_at_termination(prices, spot_price) ==
    IF prices # <<>> THEN prices[Len(prices)] ELSE spot_price

\* Faulty fallback: an empty history gives price 0
spot_price_at_launch_zero(prices, spot_price) ==
    IF prices # <<>> THEN prices[1] ELSE 0

\* float(prices[0]) if prices else spot_price, line 135
spot_price_at_launch(prices, spot_price) ==
    IF prices # <<>> THEN prices[1] ELSE spot_price

\* Faulty dispersion: the deviations are taken from the mean of the samples
\* (n * p - sum is n times the deviation of p from the mean)
price_variance_from_mean(prices, at_launch) ==
    IF prices # <<>>
    THEN LET n == Len(prices)
             total == SumSeq(prices)
         IN  RoundedSqrt(
                 SumSeq([p \in 1..n |-> (n * prices[p] - total) * (n * prices[p] - total)]),
                 n * n * n)
    ELSE 0

\* round((sum((p - spot_price_at_launch)**2 for p in prices) / len(prices))**0.5, 6)
\* if prices else 0.0, line 137: in micro-dollars, the sixth decimal of a dollar
price_variance(prices, at_launch) ==
    IF prices # <<>>
    THEN RoundedSqrt(
             SumSeq([p \in 1..Len(prices) |->
                        (prices[p] - at_launch) * (prices[p] - at_launch)]),
             Len(prices))
    ELSE 0

\* Asia/Kolkata is UTC+5:30 the whole year
KolkataOffset == (5 * 60 + 30) * 60 * 1000

DayMillis == 24 * 60 * 60 * 1000

\* Faulty localisation: the timestamp is left in UTC
local_time_utc(timestamp) == timestamp

\* termination_time.astimezone(local_tz), line 121: the local wall clock, as
\* milliseconds since 1970-01-01 00:00 of that clock
local_time(timestamp) == timestamp + KolkataOffset

DayNames ==
    <<"Monday", "Tuesday", "Wednesday", "Thursday", "Friday", "Saturday", "Sunday">>

\* local_time.strftime('%A'), line 124: 1970-01-01 was a Thursday
day_of_week(local) == DayNames[((local \div DayMillis + 3) % 7) + 1]

\* local_time.hour, line 125
hour_of_day(local) == (local % DayMillis) \div (60 * 60 * 1000)

\* day_of_week in ['Saturday', 'Sunday'], line 126
is_weekend(day) == day \in {"Saturday", "Sunday"}

\* What an f-string puts for an optional value: str(None) is 'None'
Str(value) == IF value = None THEN "None" ELSE value[1]

\* Faulty generate_description: the sentence on the price follows the trend
generate_description_by_trend(data) ==
    << "Instance ", Str(data.InstanceId),
       " (type ", data.InstanceType,
       ") was terminated because there was no available spot capacity in zone ",
       Str(data.AvailabilityZone),
       ". It had network performance of '", Str(data.NetworkPerformance),
       "' and used '", data.CpuCreditsType,
       IF data.SpotPriceTrend = 0
       THEN "' CPU credits. The spot price remained stable at "
       ELSE "' CPU credits. The spot price moved from ",
       data.SpotPriceAtLaunch,
       " USD. The instance lived for ", data.UptimeMinutes,
       " minutes ('", data.UptimeClass,
       "' uptime). You launched ", data.InstancePopularity,
       " similar spot instances in the past hour, indicating high demand in your account. In the past ",
       LOOKBACK_MINUTES,
       " minutes, your account had ", data.RegionDemandScore,
       " spot terminations in region ", data.Region,
       ", with ", data.AZInterruptionRate,
       " in AZ ", Str(data.AvailabilityZone),
       ", showing capacity pressure. This was a '", data.SpotRequestType,
       "' spot request, meaning AWS did not retry after termination." >>

\* generate_description, lines 86-95: the text as the sequence of its pieces,
\* the literal pieces of the template at the odd places and the values it
\* interpolates at the even places
generate_description(data) ==
    << "Instance ", Str(data.InstanceId),
       " (type ", data.InstanceType,
       ") was terminated because there was no available spot capacity in zone ",
       Str(data.AvailabilityZone),
       ". It had network performance of '", Str(data.NetworkPerformance),
       "' and used '", data.CpuCreditsType,
       "' CPU credits. The spot price remained stable at ", data.SpotPriceAtLaunch,
       " USD. The instance lived for ", data.UptimeMinutes,
       " minutes ('", data.UptimeClass,
       "' uptime). You launched ", data.InstancePopularity,
       " similar spot instances in the past hour, indicating high demand in your account. In the past ",
       LOOKBACK_MINUTES,
       " minutes, your account had ", data.RegionDemandScore,
       " spot terminations in region ", data.Region,
       ", with ", data.AZInterruptionRate,
       " in AZ ", Str(data.AvailabilityZone),
       ", showing capacity pressure. This was a '", data.SpotRequestType,
       "' spot request, meaning AWS did not retry after termination." >>

\* The place of the n-th interpolated value in the text
Slot(n) == 2 * n

\* The condition of the popularity count, lines 147-148
CountsAsSameType(req, instance_type, create_time) ==
    /\ req.InstanceType = instance_type
    /\ req.CreateTime >= create_time - PopularityDelta

\* Faulty count: taken over the recent terminations, not over all requests
count_same_type_recent(all_requests, instance_type, create_time) ==
    Cardinality({p \in 1..Len(recent_terminated) :
                    CountsAsSameType(recent_terminated[p], instance_type, create_time)})

\* sum(1 for req in all_requests if ...), lines 145-148
count_same_type(all_requests, instance_type, create_time) ==
    Cardinality({p \in 1..Len(all_requests) :
                    CountsAsSameType(all_requests[p], instance_type, create_time)})

\* Whether the provider call `lookup` raises while the k-th event is enriched
Raises(k, lookup) == <<k, lookup>> \in faults

\* enrich_termination_data for the k-th event, when neither the zone mapping
\* nor the price history raised.  Fields the script copies or formats and that
\* no other field depends on (State, StatusMessage, VpcId, SubnetId, AccountId, the
\* ISO timestamps) are left out.
enrich_termination_data(spot_request, all_requests, region_score, az_score, k) ==
    LET instance_type == spot_request.InstanceType
        az            == spot_request.LaunchedAvailabilityZone
        spot_price    == spot_request.SpotPrice
        create_time   == spot_request.CreateTime
        update_time   == spot_request.UpdateTime
        termination_time == update_time
        local         == local_time(termination_time)
        day           == day_of_week(local)
        price_history == get_spot_price_history(price_feed[instance_type])
        prices        == [p \in 1..Len(price_history) |-> price_history[p].SpotPrice]
        at_termination == spot_price_at_termination(prices, spot_price)
        at_launch     == spot_price_at_launch(prices, spot_price)
        uptime        == UptimeMinutes(termination_time - create_time)
        net           == get_network_performance(instance_type, Raises(k, "net"))
        enriched ==
        [ InstanceId             |-> spot_request.InstanceId,
          SpotInstanceRequestId  |-> spot_request.SpotInstanceRequestId,
          InstanceType           |-> instance_type,
          AvailabilityZone       |-> az,
          AvailabilityZoneId     |-> az_id_of(az),
          SpotPrice              |-> spot_price,
          SpotPriceAtLaunch      |-> at_launch,
          SpotPriceAtTermination |-> at_termination,
          SpotPriceTrend         |-> at_termination - at_launch,
          PriceVariance          |-> price_variance(prices, at_launch),
          DayOfWeek              |-> day,
          HourOfDay              |-> hour_of_day(local),
          IsWeekend              |-> is_weekend(day),
          UptimeMinutes          |-> uptime,
          IsShortLived           |-> is_short_lived(uptime),
          UptimeClass            |-> UptimeClass(uptime),
          InstancePopularity     |-> count_same_type(all_requests, instance_type,
                                                     create_time),
          NetworkPerformance     |-> net[1],
          NetworkCardIndex       |-> net[2],
          CpuCreditsType         |-> get_cpu_credit_type(instance_type, Raises(k, "cpu")),
          PoolUtilizationClass   |-> get_pool_utilization_class(instance_type, az,
                                                                Raises(k, "pool")),
          RegionDemandScore      |-> region_score,
          AZInterruptionRate     |-> az_score,
          StatusCode             |-> spot_request.StatusCode,
          SpotRequestType        |-> spot_request.Type,
          Region                 |-> region ]
    IN  enriched @@ [Description |-> generate_description(enriched)]

\* Faulty filter: a termination at the very start of the window is left out
IsRecentTerminated_exclusive(req, cutoff) ==
    HasTerminated(req.StatusCode) /\ req.UpdateTime > cutoff

\* The filter of lines 200-203
IsRecentTerminated(req, cutoff) ==
    HasTerminated(req.StatusCode) /\ req.UpdateTime >= cutoff

\* Faulty filter: the events kept lose their instance identifier
recent_terminated_of_stripped(requests, cutoff) ==
    LET Keep(req) == IsRecentTerminated(req, cutoff)
        kept == SelectSeq(requests, Keep)
    IN  [k \in 1..Len(kept) |-> [kept[k] EXCEPT !.InstanceId = None]]

\* Lines 200-203
recent_terminated_of(requests, cutoff) ==
    LET Keep(req) == IsRecentTerminated(req, cutoff)
    IN  SelectSeq(requests, Keep)

\* Faulty lookup: the count is lowered by the number of events enriched before
az_demand_score_remaining(counter, az) ==
    DictGet(counter, az, 0) - Len(termination_logs)

\* Faulty lookup: the counter is read by zone id, not by zone name
az_demand_score_by_zone_id(counter, az) == DictGet(counter, az_id_of(az), 0)

\* az_counter.get(az, 0), line 218
az_demand_score_of(counter, az) == DictGet(counter, az, 0)

\* Faulty append: the list is replaced by the new record
AppendLog_assign(logs, enriched_data) == <<enriched_data>>

\* Faulty append: the new record is put first
AppendLog_front(logs, enriched_data) == <<enriched_data>> \o logs

\* Faulty count: an event without zone is not counted
az_counter_add_named(counter, az) ==
    IF az = None THEN counter
    ELSE DictPut(counter, az, DictGet(counter, az, 0) + 1)

\* Faulty count: the bucket is set, not incremented
az_counter_set(counter, az) == DictPut(counter, az, 1)

\* az_counter[az] = az_counter.get(az, 0) + 1, line 212
az_counter_add(counter, az) == DictPut(counter, az, DictGet(counter, az, 0) + 1)

\* termination_logs.append(enriched_data), line 220
AppendLog(logs, enriched_data) == Append(logs, enriched_data)

\* The loop of line 210 has visited every event
CountLoopDone == i > Len(recent_terminated)

\* Faulty loop end: the loop of line 216 stops before its last event
EnrichLoopDone_early == j >= Len(recent_terminated)

\* The loop of line 216 has visited every event
EnrichLoopDone == j > Len(recent_terminated)

----------------------------------------------------------------------------
(* The steps of the script *)

\* Line 195.  An exception of the batch listing leaves the module body.
Fetch ==
    /\ pc = "fetch"
    /\ \/ /\ Raises(0, "fetch")
          /\ pc' = "crashed"
          /\ error' = "fetch"
          /\ UNCHANGED spot_requests
       \/ /\ ~Raises(0, "fetch")
          /\ spot_requests' = provider
          /\ pc' = "now"
          /\ UNCHANGED error
    /\ UNCHANGED <<env, migration, now, cutoff_time, recent_terminated, region_demand_score,
                   az_counter, i, j, termination_logs, az_calls, file>>

\* Lines 196-197
ReadNow ==
    /\ pc = "now"
    /\ now' = clock
    /\ cutoff_time' = clock - LookbackDelta
    /\ pc' = "filter"
    /\ UNCHANGED <<env, migration, error, spot_requests, recent_terminated, region_demand_score,
                   az_counter, i, j, termination_logs, az_calls, file>>

\* Lines 200-203
Filter ==
    /\ pc = "filter"
    /\ recent_terminated' = recent_terminated_of(spot_requests, cutoff_time)
    /\ pc' = "region"
    /\ UNCHANGED <<env, migration, error, spot_requests, now, cutoff_time, region_demand_score,
                   az_counter, i, j, termination_logs, az_calls, file>>

\* Lines 206 and 209
RegionScore ==
    /\ pc = "region"
    /\ region_demand_score' = Len(recent_terminated)
    /\ az_counter' = EmptyDict
    /\ i' = 1
    /\ pc' = "count"
    /\ UNCHANGED <<env, migration, error, spot_requests, now, cutoff_time, recent_terminated,
                   j, termination_logs, az_calls, file>>

\* One iteration of the loop of lines 210-212
CountStep ==
    /\ pc = "count"
    /\ ~CountLoopDone
    /\ LET az == recent_terminated[i].LaunchedAvailabilityZone
       IN  az_counter' = az_counter_add(az_counter, az)
    /\ i' = i + 1
    /\ UNCHANGED <<env, migration, pc, error, spot_requests, now, cutoff_time, recent_terminated,
                   region_demand_score, j, termination_logs, az_calls, file>>

\* The loop of lines 210-212 ends; line 215
CountEnd ==
    /\ pc = "count"
    /\ CountLoopDone
    /\ termination_logs' = <<>>
    /\ j' = 1
    /\ pc' = "enrich"
    /\ UNCHANGED <<env, migration, error, spot_requests, now, cutoff_time, recent_terminated,
                   region_demand_score, az_counter, i, az_calls, file>>

\* spot_request['CreateTime'], line 113, raises KeyError
lacks_create_time(spot_request) == "CreateTime" \notin DOMAIN spot_request

\* The generator of lines 146-148 raises KeyError: it reads req['CreateTime']
\* of every request of the same type
count_raises(all_requests, instance_type) ==
    \E p \in 1..Len(all_requests) :
        /\ all_requests[p].InstanceType = instance_type
        /\ lacks_create_time(all_requests[p])

\* What ends enrich_termination_data for the k-th event, in the order of its
\* statements: the zone mapping (line 107), the creation time (line 113), the
\* price history (line 131), the popularity count (lines 146-148); "none" when
\* it returns a record
EnrichError(k) ==
    IF Raises(k, "az") THEN "az"
    ELSE IF lacks_create_time(recent_terminated[k]) THEN "KeyError"
    ELSE IF Raises(k, "price") THEN "price"
    ELSE IF count_raises(spot_requests, recent_terminated[k].InstanceType)
         THEN "KeyError"
    ELSE "none"

\* Faulty loop: an exception of the enrichment is caught per event and the
\* event is skipped
EnrichRaised_skipping(e) ==
    /\ j' = j + 1
    /\ UNCHANGED <<pc, error, termination_logs>>

\* The loop of lines 216-220 has no try: an exception of
\* enrich_termination_data leaves the loop and the module body
EnrichRaised(e) ==
    /\ pc' = "crashed"
    /\ error' = e
    /\ UNCHANGED <<j, termination_logs>>

\* One iteration of the loop of lines 216-220.  get_az_id_mapping (line 107) and
\* get_spot_price_history (line 131) are called with no try around them, and
\* neither is the reading of CreateTime (lines 113, 148): an exception of any
\* of them leaves enrich_termination_data, the loop and the module body.
Enrich ==
    /\ pc = "enrich"
    /\ ~EnrichLoopDone
    /\ az_calls' = az_calls + 1
    /\ \/ /\ EnrichError(j) # "none"
          /\ EnrichRaised(EnrichError(j))
       \/ /\ EnrichError(j) = "none"
          /\ LET req == recent_terminated[j]
                 az  == req.LaunchedAvailabilityZone
                 az_demand_score == az_demand_score_of(az_counter, az)
                 enriched_data == enrich_termination_data(
                     req, spot_requests, region_demand_score, az_demand_score, j)
             IN  termination_logs' = AppendLog(termination_logs, enriched_data)
          /\ j' = j + 1
          /\ UNCHANGED <<pc, error>>
    /\ UNCHANGED <<env, migration, spot_requests, now, cutoff_time, recent_terminated,
                   region_demand_score, az_counter, i, file>>

\* The loop of lines 216-220 ends
EnrichEnd ==
    /\ pc = "enrich"
    /\ EnrichLoopDone
    /\ pc' = "save"
    /\ UNCHANGED <<env, migration, error, spot_requests, now, cutoff_time, recent_terminated,
                   region_demand_score, az_counter, i, j, termination_logs,
                   az_calls, file>>

\* Lines 223-224
Save ==
    /\ pc = "save"
    /\ file' = Some(termination_logs)
    /\ pc' = "done"
    /\ UNCHANGED <<env, migration, error, spot_requests, now, cutoff_time, recent_terminated,
                   region_demand_score, az_counter, i, j, termination_logs, az_calls>>

Next ==
    \/ Fetch
    \/ ReadNow
    \/ Filter
    \/ RegionScore
    \/ CountStep
    \/ CountEnd
    \/ Enrich
    \/ EnrichEnd
    \/ Save

----------------------------------------------------------------------------
(* The migration scripts: texts and their encodings *)

\* Characters the keys and the contents are made of
Quote == 34
Slash == 47
Backslash == 92
Underscore == 95

\* The concatenation of a sequence of sequences
RECURSIVE Flatten(_)
Flatten(seqs) ==
    IF seqs = <<>> THEN <<>> ELSE Head(seqs) \o Flatten(Tail(seqs))

\* A continuation byte of UTF-8
IsContinuation(b) == b \in 128..191

\* The byte at place p of bs, -1 past its end
ByteAt(bs, p) == IF p \in 1..Len(bs) THEN bs[p] ELSE -1

\* The length of the well-formed UTF-8 sequence that starts at place p of bs,
\* 0 when none does (bytes.decode('utf-8') is strict: no overlong form, no
\* surrogate, nothing above U+10FFFF)
Utf8Length(bs, p) ==
    LET b0 == bs[p]
        b1 == ByteAt(bs, p + 1)
        b2 == ByteAt(bs, p + 2)
        b3 == ByteAt(bs, p + 3)
    IN  IF b0 < 128 THEN 1
        ELSE IF b0 \in 194..223 /\ IsContinuation(b1) THEN 2
        ELSE IF b0 = 224 /\ b1 \in 160..191 /\ IsContinuation(b2) THEN 3
        ELSE IF b0 \in (225..236) \cup (238..239)
                /\ IsContinuation(b1) /\ IsContinuation(b2) THEN 3
        ELSE IF b0 = 237 /\ b1 \in 128..159 /\ IsContinuation(b2) THEN 3
        ELSE IF b0 = 240 /\ b1 \in 144..191
                /\ IsContinuation(b2) /\ IsContinuation(b3) THEN 4
        ELSE IF b0 \in 241..243 /\ IsContinuation(b1)
                /\ IsContinuation(b2) /\ IsContinuation(b3) THEN 4
        ELSE IF b0 = 244 /\ b1 \in 128..143
                /\ IsContinuation(b2) /\ IsContinuation(b3) THEN 4
        ELSE 0

\* The code point of the well-formed sequence of length len at place p of bs
Utf8CodePoint(bs, p, len) ==
    IF len = 1 THEN bs[p]
    ELSE IF len = 2 THEN (bs[p] % 32) * 64 + (bs[p + 1] % 64)
    ELSE IF len = 3 THEN (bs[p] % 16) * 4096 + (bs[p + 1] % 64) * 64 + (bs[p + 2] % 64)
    ELSE (bs[p] % 8) * 262144 + (bs[p + 1] % 64) * 4096
            + (bs[p + 2] % 64) * 64 + (bs[p + 3] % 64)

\* bytes.decode('utf-8'): Some(text), or None for UnicodeDecodeError
RECURSIVE Utf8DecodeFrom(_, _)
Utf8DecodeFrom(bs, p) ==
    IF p > Len(bs) THEN Some(<<>>)
    ELSE LET len == Utf8Length(bs, p)
         IN  IF len = 0 THEN None
             ELSE LET rest == Utf8DecodeFrom(bs, p + len)
                  IN  IF rest = None THEN None
                      ELSE Some(<<Utf8CodePoint(bs, p, len)>> \o rest[1])

Utf8Decode(bs) == Utf8DecodeFrom(bs, 1)

\* The UTF-8 bytes of one code point
Utf8Bytes(c) ==
    IF c < 128 THEN <<c>>
    ELSE IF c < 2048 THEN <<192 + (c \div 64), 128 + (c % 64)>>
    ELSE IF c < 65536 THEN <<224 + (c \div 4096), 128 + ((c \div 64) % 64), 128 + (c % 64)>>
    ELSE <<240 + (c \div 262144), 128 + ((c \div 4096) % 64),
           128 + ((c \div 64) % 64), 128 + (c % 64)>>

\* str.encode('utf-8')
Utf8Encode(text) == Flatten([p \in 1..Len(text) |-> Utf8Bytes(text[p])])

\* One hexadecimal digit, lower case
HexDigit(d) == IF d < 10 THEN 48 + d ELSE 87 + d

\* bytes.hex()
Hex(bs) == Flatten([p \in 1..Len(bs) |->
                <<HexDigit(bs[p] \div 16), HexDigit(bs[p] % 16)>>])

\* The value of a hexadecimal digit of either case, -1 for another character
HexValue(c) ==
    IF c \in 48..57 THEN c - 48
    ELSE IF c \in 97..102 THEN c - 87
    ELSE IF c \in 65..70 THEN c - 55
    ELSE -1

\* bytes.fromhex: Some(bytes), or None for ValueError
FromHex(text) ==
    IF Len(text) % 2 # 0 \/ \E p \in 1..Len(text) : HexValue(text[p]) < 0 THEN None
    ELSE Some([p \in 1..(Len(text) \div 2) |->
                16 * HexValue(text[2 * p - 1]) + HexValue(text[2 * p])])

\* The character of a six-bit value in the base64 alphabet
B64Char(v) ==
    IF v < 26 THEN 65 + v
    ELSE IF v < 52 THEN 97 + (v - 26)
    ELSE IF v < 62 THEN 48 + (v - 52)
    ELSE IF v = 62 THEN 43
    ELSE 47

\* The six-bit value of a character of the base64 alphabet, -1 for another
B64Value(c) ==
    IF c \in 65..90 THEN c - 65
    ELSE IF c \in 97..122 THEN c - 97 + 26
    ELSE IF c \in 48..57 THEN c - 48 + 52
    ELSE IF c = 43 THEN 62
    ELSE IF c = 47 THEN 63
    ELSE -1

\* base64.b64encode(content).decode('utf-8')
RECURSIVE B64Encode(_)
B64Encode(bs) ==
    IF Len(bs) = 0 THEN <<>>
    ELSE IF Len(bs) = 1 THEN
        <<B64Char(bs[1] \div 4), B64Char((bs[1] % 4) * 16), 61, 61>>
    ELSE IF Len(bs) = 2 THEN
        <<B64Char(bs[1] \div 4), B64Char((bs[1] % 4) * 16 + (bs[2] \div 16)),
          B64Char((bs[2] % 16) * 4), 61>>
    ELSE <<B64Char(bs[1] \div 4), B64Char((bs[1] % 4) * 16 + (bs[2] \div 16)),
           B64Char((bs[2] % 16) * 4 + (bs[3] \div 64)), B64Char(bs[3] % 64)>>
         \o B64Encode(SubSeq(bs, 4, Len(bs)))

\* base64.b64decode of a text of the alphabet and its padding: Some(bytes), or
\* None for binascii.Error
RECURSIVE B64Decode(_)
B64Decode(text) ==
    IF Len(text) = 0 THEN Some(<<>>)
    ELSE IF Len(text) < 4 THEN None
    ELSE LET v1 == B64Value(text[1])
             v2 == B64Value(text[2])
             v3 == B64Value(text[3])
             v4 == B64Value(text[4])
             last == Len(text) = 4
         IN  IF v1 < 0 \/ v2 < 0 THEN None
             ELSE IF last /\ text[3] = 61 /\ text[4] = 61 THEN
                 Some(<<v1 * 4 + (v2 \div 16)>>)
             ELSE IF v3 < 0 THEN None
             ELSE IF last /\ text[4] = 61 THEN
                 Some(<<v1 * 4 + (v2 \div 16), (v2 % 16) * 16 + (v3 \div 4)>>)
             ELSE IF v4 < 0 THEN None
             ELSE LET rest == B64Decode(SubSeq(text, 5, Len(text)))
                  IN  IF rest = None THEN None
                      ELSE Some(<<v1 * 4 + (v2 \div 16), (v2 % 16) * 16 + (v3 \div 4),
                                  (v3 % 4) * 64 + v4>> \o rest[1])

\* A character written as it is, escaped or not
JsonEscapeChar_plain(c) == <<c>>

\* json.dump(..., ensure_ascii=False) of one character of a string
JsonEscapeChar(c) ==
    IF c = Quote THEN <<Backslash, Quote>>
    ELSE IF c = Backslash THEN <<Backslash, Backslash>>
    ELSE IF c = 10 THEN <<Backslash, 110>>
    ELSE IF c = 13 THEN <<Backslash, 114>>
    ELSE IF c = 9 THEN <<Backslash, 116>>
    ELSE IF c = 8 THEN <<Backslash, 98>>
    ELSE IF c = 12 THEN <<Backslash, 102>>
    ELSE IF c < 32 THEN <<Backslash, 117, 48, 48, HexDigit(c \div 16), HexDigit(c % 16)>>
    ELSE <<c>>

\* json.dump(..., ensure_ascii=False) of a string, without its quotes
JsonEscape(text) == Flatten([p \in 1..Len(text) |-> JsonEscapeChar(text[p])])

\* The character a one-letter escape of JSON stands for, -1 when it is none
JsonEscaped(c) ==
    IF c \in {Quote, Backslash, Slash} THEN c
    ELSE IF c = 110 THEN 10
    ELSE IF c = 114 THEN 13
    ELSE IF c = 116 THEN 9
    ELSE IF c = 98 THEN 8
    ELSE IF c = 102 THEN 12
    ELSE -1

\* json.load of the inside of a string: Some(text), or None for JSONDecodeError
RECURSIVE JsonUnescapeFrom(_, _)
JsonUnescapeFrom(text, p) ==
    IF p > Len(text) THEN Some(<<>>)
    ELSE IF text[p] = Quote \/ text[p] < 32 THEN None
    ELSE IF text[p] # Backslash THEN
        LET rest == JsonUnescapeFrom(text, p + 1)
        IN  IF rest = None THEN None ELSE Some(<<text[p]>> \o rest[1])
    ELSE IF p + 1 > Len(text) THEN None
    ELSE IF text[p + 1] = 117 THEN
        IF p + 5 > Len(text) \/ \E q \in (p + 2)..(p + 5) : HexValue(text[q]) < 0
        THEN None
        ELSE LET rest == JsonUnescapeFrom(text, p + 6)
                 c == 4096 * HexValue(text[p + 2]) + 256 * HexValue(text[p + 3])
                        + 16 * HexValue(text[p + 4]) + HexValue(text[p + 5])
             IN  IF rest = None THEN None ELSE Some(<<c>> \o rest[1])
    ELSE IF JsonEscaped(text[p + 1]) < 0 THEN None
    ELSE LET rest == JsonUnescapeFrom(text, p + 2)
         IN  IF rest = None THEN None
             ELSE Some(<<JsonEscaped(text[p + 1])>> \o rest[1])

JsonUnescape(text) == JsonUnescapeFrom(text, 1)

----------------------------------------------------------------------------
(* The migration scripts: download of a bucket, then upload *)

\* Texts the scripts write or compare with, as code points
TextSlash == <<116, 101, 120, 116, 47>>
Json == <<106, 115, 111, 110>>
ApplicationJson == <<97, 112, 112, 108, 105, 99, 97, 116, 105, 111, 110, 47, 106, 115, 111, 110>>
Unknown == <<117, 110, 107, 110, 111, 119, 110>>
Utf8Name == <<117, 116, 102, 45, 56>>
HexName == <<104, 101, 120>>
Base64Name == <<98, 97, 115, 101, 54, 52>>
DotJson == <<46, 106, 115, 111, 110>>

\* str.lower(), of a text whose letters are ASCII
lower(text) ==
    [p \in 1..Len(text) |-> IF text[p] \in 65..90 THEN text[p] + 32 ELSE text[p]]

\* str.startswith, str.endswith, the operator in, str.replace of one character
startswith(text, prefix) ==
    Len(text) >= Len(prefix) /\ SubSeq(text, 1, Len(prefix)) = prefix

endswith(text, suffix) ==
    Len(text) >= Len(suffix)
        /\ SubSeq(text, Len(text) - Len(suffix) + 1, Len(text)) = suffix

contains(text, part) ==
    \E p \in 1..(Len(text) - Len(part) + 1) : SubSeq(text, p, p + Len(part) - 1) = part

replace(text, old, new) ==
    [p \in 1..Len(text) |-> IF text[p] = old THEN new ELSE text[p]]

\* s3-json-download.py line 168
safe_filename(object_key) ==
    replace(replace(object_key, Slash, Underscore), Backslash, Underscore)

\* Line 169, as a path under local_dir
json_file_path(object_key) == safe_filename(object_key) \o DotJson

\* The place of the last and of the first '/' of a text, 0 when it has none
LastSlash(text) ==
    IF \E p \in 1..Len(text) : text[p] = Slash
    THEN CHOOSE p \in 1..Len(text) :
            text[p] = Slash /\ \A q \in (p + 1)..Len(text) : text[q] # Slash
    ELSE 0

FirstSlash(text) ==
    IF \E p \in 1..Len(text) : text[p] = Slash
    THEN CHOOSE p \in 1..Len(text) :
            text[p] = Slash /\ \A q \in 1..(p - 1) : text[q] # Slash
    ELSE 0

\* A text without its trailing '/' characters
RECURSIVE RStripSlash(_)
RStripSlash(text) ==
    IF text # <<>> /\ text[Len(text)] = Slash
    THEN RStripSlash(SubSeq(text, 1, Len(text) - 1))
    ELSE text

\* Lines 124-125: os.path.dirname(os.path.join(local_dir, object_key)) as a
\* path under local_dir, the empty text being local_dir itself.  The key does
\* not start with '/': os.path.join would then leave local_dir.
dirname(object_key) == RStripSlash(SubSeq(object_key, 1, LastSlash(object_key)))

\* The first component of a path under local_dir
FirstComponent(path) ==
    IF FirstSlash(path) = 0 THEN path ELSE SubSeq(path, 1, FirstSlash(path) - 1)

\* Line 126: os.makedirs raises when a component of the path is a file.  The
\* files all lie in local_dir itself.
makedirs_raises(files, object_key) ==
    dirname(object_key) # <<>> /\ FirstComponent(dirname(object_key)) \in DOMAIN files

\* Line 172: open raises when the path is a directory
open_raises(dirs, object_key) ==
    \E d \in dirs : d # <<>> /\ FirstComponent(d) = json_file_path(object_key)

\* Lines 93-103: the keys of the bucket, page after page, in listing order
list_all_objects(listing) == [p \in 1..Len(listing) |-> listing[p].Key]

\* head_object and get_object of a key of the bucket (lines 129-133)
get_object(listing, object_key) ==
    listing[CHOOSE p \in 1..Len(listing) : listing[p].Key = object_key]

\* Lines 136-165: the JSON structure of an object.  Of the metadata, the key,
\* the content type and the encoding are kept: the upload reads no other.
download_object_as_json(response) ==
    LET content == response.Body
        content_type ==
            lower(IF response.ContentType = None THEN <<>> ELSE response.ContentType[1])
        stored_type ==
            IF response.ContentType = None THEN Unknown ELSE response.ContentType[1]
        decoded == Utf8Decode(content)
        as_text == startswith(content_type, TextSlash) \/ contains(content_type, Json)
                       \/ content_type = ApplicationJson
        encoding == IF as_text
                    THEN IF decoded # None THEN Utf8Name ELSE HexName
                    ELSE Base64Name
    IN  [metadata |-> [key |-> response.Key, content_type |-> stored_type,
                       encoding |-> encoding],
         content |-> IF as_text
                     THEN IF decoded # None THEN decoded[1] ELSE Hex(content)
                     ELSE B64Encode(content)]

\* Lines 172-173: a string as json.dump(..., ensure_ascii=False) writes it to
\* a file opened with encoding='utf-8', and the file of an object
json_dump_string(text) == Utf8Encode(JsonEscape(text))

json_dump(object_data) ==
    [metadata |-> [key |-> json_dump_string(object_data.metadata.key),
                   content_type |-> json_dump_string(object_data.metadata.content_type),
                   encoding |-> json_dump_string(object_data.metadata.encoding)],
     content |-> json_dump_string(object_data.content)]

\* s3-upload-json.py lines 147-148: json.load of a string and of a file,
\* Some(value) or None for an error
json_loads(decoded) == IF decoded = None THEN None ELSE JsonUnescape(decoded[1])

json_load_string(bs) == json_loads(Utf8Decode(bs))

json_object(key, content_type, encoding, content) ==
    IF None \in {key, content_type, encoding, content} THEN None
    ELSE Some([metadata |-> [key |-> key[1], content_type |-> content_type[1],
                             encoding |-> encoding[1]],
               content |-> content[1]])

json_load(written) ==
    json_object(json_load_string(written.metadata.key),
                json_load_string(written.metadata.content_type),
                json_load_string(written.metadata.encoding),
                json_load_string(written.content))

\* Lines 160-172: the content restored by its encoding, Some(bytes) or None
\* for an error of the decoder
content_bytes(encoding, content) ==
    IF encoding = Base64Name THEN B64Decode(content)
    ELSE IF encoding = HexName THEN FromHex(content)
    ELSE Some(Utf8Encode(content))

\* Lines 153-157, 175-183: the arguments of put_object, None when the key is
\* missing or the content was not restored
put_object_args(original_key, content_type, restored) ==
    IF original_key = <<>> \/ restored = None THEN None
    ELSE Some([Key |-> original_key,
               Body |-> restored[1],
               ContentType |-> IF content_type # <<>> /\ content_type # Unknown
                               THEN Some(content_type)
                               ELSE None])

\* Lines 151-183 on a loaded file
upload_loaded(loaded) ==
    IF loaded = None THEN None
    ELSE put_object_args(loaded[1].metadata.key, loaded[1].metadata.content_type,
                         content_bytes(loaded[1].metadata.encoding, loaded[1].content))

\* Lines 147-186: the arguments of put_object a JSON file leads to, None when
\* upload_json_to_s3 returns (False, "") before the call
upload_args(written) == upload_loaded(json_load(written))

\* open(path, 'w'): the files with the file at path written anew
write_file(files, path, written) ==
    [f \in DOMAIN files \cup {path} |-> IF f = path THEN written ELSE files[f]]

\* s3-json-download.py lines 201-208: the local directory is made, the bucket
\* is listed; a failed listing ends the script, an empty bucket the download
ListObjects ==
    /\ mpc = "list"
    /\ directories' = directories \cup {<<>>}
    /\ IF <<"list", 0>> \in s3_faults
       THEN /\ mpc' = "failed"
            /\ UNCHANGED <<objects, object_index>>
       ELSE /\ objects' = list_all_objects(bucket)
            /\ object_index' = 1
            /\ mpc' = IF bucket = <<>> THEN "downloaded" ELSE "download"
    /\ UNCHANGED <<enrichment, bucket, s3_faults, local_dir, downloaded_files,
                   failed_downloads, json_files, target_bucket, uploaded_keys,
                   failed_files>>

\* Lines 215-224: one object is downloaded; an exception of
\* download_object_as_json puts its key among the failed ones
DownloadObject ==
    /\ mpc = "download"
    /\ object_index <= Len(objects)
    /\ LET object_key == objects[object_index]
           no_directory == makedirs_raises(local_dir, object_key)
           made == IF no_directory THEN directories
                   ELSE directories \cup {dirname(object_key)}
           raises == \/ no_directory
                     \/ <<"get", object_index>> \in s3_faults
                     \/ open_raises(made, object_key)
       IN  /\ directories' = made
           /\ IF raises
              THEN /\ failed_downloads' = Append(failed_downloads, object_key)
                   /\ UNCHANGED <<local_dir, downloaded_files>>
              ELSE /\ local_dir' =
                        write_file(local_dir, json_file_path(object_key),
                            json_dump(download_object_as_json(
                                get_object(bucket, object_key))))
                   /\ downloaded_files' =
                        Append(downloaded_files, json_file_path(object_key))
                   /\ UNCHANGED failed_downloads
    /\ object_index' = object_index + 1
    /\ UNCHANGED <<enrichment, bucket, s3_faults, mpc, objects, json_files,
                   target_bucket, uploaded_keys, failed_files>>

\* The loop of lines 215-224 ends, download_all_objects returns
DownloadEnd ==
    /\ mpc = "download"
    /\ object_index > Len(objects)
    /\ mpc' = "downloaded"
    /\ UNCHANGED <<enrichment, bucket, s3_faults, objects, object_index, directories,
                   local_dir, downloaded_files, failed_downloads, json_files,
                   target_bucket, uploaded_keys, failed_files>>

\* s3-upload-json.py lines 109-131, 214-218: the JSON files of the directory
find_json_files(files) == {f \in DOMAIN files : endswith(f, DotJson)}

FindJsonFiles ==
    /\ mpc = "downloaded"
    /\ json_files' = find_json_files(local_dir)
    /\ mpc' = IF find_json_files(local_dir) = {} THEN "uploaded" ELSE "upload"
    /\ UNCHANGED <<enrichment, bucket, s3_faults, objects, object_index, directories,
                   local_dir, downloaded_files, failed_downloads, target_bucket,
                   uploaded_keys, failed_files>>

\* Lines 227-245: the k-th file is uploaded, args being the arguments of its
\* put_object call
UploadOne(json_file, args, k) ==
    /\ json_files' = json_files \ {json_file}
    /\ IF args = None \/ <<"put", k>> \in s3_faults
       THEN /\ failed_files' = Append(failed_files, json_file)
            /\ UNCHANGED <<target_bucket, uploaded_keys>>
       ELSE /\ target_bucket' = Append(target_bucket, args[1])
            /\ uploaded_keys' = Append(uploaded_keys, args[1].Key)
            /\ UNCHANGED failed_files

\* os.walk fixes no order among the files, so any file still to upload may be
\* the next
UploadFile ==
    /\ mpc = "upload"
    /\ \E json_file \in json_files :
        UploadOne(json_file, upload_args(local_dir[json_file]),
                  Len(uploaded_keys) + Len(failed_files) + 1)
    /\ UNCHANGED <<enrichment, bucket, s3_faults, mpc, objects, object_index,
                   directories, local_dir, downloaded_files, failed_downloads>>

\* The loop of lines 227-245 ends, upload_all_objects returns
UploadEnd ==
    /\ mpc = "upload"
    /\ json_files = {}
    /\ mpc' = "uploaded"
    /\ UNCHANGED <<enrichment, bucket, s3_faults, objects, object_index, directories,
                   local_dir, downloaded_files, failed_downloads, json_files,
                   target_bucket, uploaded_keys, failed_files>>

NextMigration ==
    \/ ListObjects
    \/ DownloadObject
    \/ DownloadEnd
    \/ FindJsonFiles
    \/ UploadFile
    \/ UploadEnd

----------------------------------------------------------------------------
(* Runs *)

\* The migration scripts are not run
MigrationIdle ==
    /\ bucket = <<>>
    /\ s3_faults = {}
    /\ mpc = "idle"
    /\ objects = <<>>
    /\ object_index = 0
    /\ directories = {}
    /\ local_dir = EmptyDict
    /\ downloaded_files = <<>>
    /\ failed_downloads = <<>>
    /\ json_files = {}
    /\ target_bucket = <<>>
    /\ uploaded_keys = <<>>
    /\ failed_files = <<>>

\* The script before its first statement
InitScript ==
    /\ pc = "fetch"
    /\ error = "none"
    /\ spot_requests = <<>>
    /\ now = 0
    /\ cutoff_time = 0
    /\ recent_terminated = <<>>
    /\ region_demand_score = 0
    /\ az_counter = EmptyDict
    /\ i = 0
    /\ j = 0
    /\ termination_logs = <<>>
    /\ az_calls = 0
    /\ file = None
    /\ MigrationIdle

Lookups == {"az", "price", "net", "cpu", "pool"}

\* The instant the run starts.  The batch is listed before the clock is read
\* (line 195, then line 196), so no timestamp of the batch is later.
Clock == 20000000

\* The calls a run over n events makes
FaultPoints(n) == {<<0, "fetch">>} \cup ((1..n) \X Lookups)

\* The fault sets with at most m faults
RECURSIVE FaultSets(_, _)
FaultSets(n, m) ==
    IF m = 0 THEN {{}}
    ELSE FaultSets(n, m - 1) \cup
         {F \cup {f} : F \in FaultSets(n, m - 1), f \in FaultPoints(n)}

\* The price history the provider returns for each instance type: none, or two
\* samples of the six hours before the termination, the later one first
PriceFeeds ==
    { [t \in InstanceTypes |-> <<>>],
      [t \in InstanceTypes |-> <<PriceSample(Clock - 2000000, 47000),
                                 PriceSample(Clock - 4000000, 46000)>>] }

\* The batches of at most n requests whose p-th request is Request(p, ...) of a
\* shape of S, a set of <<type, zone, create, update, code>>
Batches(n, S) ==
    UNION { { [p \in 1..m |-> Request(p, f[p][1], f[p][2], f[p][3], f[p][4], f[p][5])] :
                f \in [1..m -> S] } : m \in 0..n }

\* Runs that differ in what fails: up to MaxFaultBatch recent terminations of
\* either type, up to MaxFaults failing calls
MaxFaultBatch == 2
MaxFaults == 3

FaultShapes ==
    { <<t, Some("ap-south-1a"), Clock - 3000000, Clock - 600000, CodeTerminatedNoCapacity>> :
        t \in InstanceTypes }

Init ==
    /\ InitScript
    /\ clock = Clock
    /\ provider \in Batches(MaxFaultBatch, FaultShapes)
    /\ faults \in FaultSets(MaxFaultBatch, MaxFaults)
    /\ price_feed \in PriceFeeds

Spec == Init /\ [][Next]_vars

\* Runs that differ in instance type and creation time: up to MaxPopularityBatch
\* recent terminations created 0, 10, 70 minutes and 70 minutes 1 ms after
\* the earliest; at most one call fails
MaxPopularityBatch == 3

PopularityEpoch == Clock - 10000000

PopularityShapes ==
    { <<t, Some("ap-south-1a"), PopularityEpoch + c, Clock - 600000,
        CodeTerminatedNoCapacity>> :
        t \in InstanceTypes, c \in {0, 600000, 4200000, 4200001} }

InitPopularity ==
    /\ InitScript
    /\ clock = Clock
    /\ provider \in Batches(MaxPopularityBatch, PopularityShapes)
    /\ faults \in FaultSets(MaxPopularityBatch, 1)
    /\ price_feed = [t \in InstanceTypes |-> <<>>]

SpecPopularity == InitPopularity /\ [][Next]_vars

\* Runs that differ in the zones: up to MaxDemandBatch recent terminations, each
\* in one of two zones or with no zone; at most one call fails
MaxDemandBatch == 5

DemandShapes ==
    { <<"t3.micro", az, Clock - 3000000, Clock - 600000, CodeTerminatedNoCapacity>> :
        az \in {None} \cup {Some(z) : z \in Zones} }

InitDemand ==
    /\ InitScript
    /\ clock = Clock
    /\ provider \in Batches(MaxDemandBatch, DemandShapes)
    /\ faults \in FaultSets(MaxDemandBatch, 1)
    /\ price_feed = [t \in InstanceTypes |-> <<>>]

SpecDemand == InitDemand /\ [][Next]_vars

\* Runs that differ in status and status-update time: up to MaxWindowBatch
\* requests, terminated 1 ms before the lookback window, at its start,
\* 1 ms into it or at the instant the run starts, or not terminated and
\* updated at that instant; at most one call fails
MaxWindowBatch == 3

WindowShapes ==
    { <<"t3.micro", Some("ap-south-1a"), Clock - 20000000, u, CodeTerminatedNoCapacity>> :
        u \in {Clock - LookbackDelta - 1, Clock - LookbackDelta,
               Clock - LookbackDelta + 1, Clock} }
    \cup
    { <<"t3.micro", Some("ap-south-1a"), Clock - 20000000, Clock, code>> :
        code \in {CodeFulfilled, CodeMarkedForTermination} }

InitWindow ==
    /\ InitScript
    /\ clock = Clock
    /\ provider \in Batches(MaxWindowBatch, WindowShapes)
    /\ faults \in FaultSets(MaxWindowBatch, 1)
    /\ price_feed = [t \in InstanceTypes |-> <<>>]

SpecWindow == InitWindow /\ [][Next]_vars

\* Runs that differ in the price history: at most MaxPriceBatch recent
\* terminations of type t3.micro, whose history holds up to MaxSamples samples
\* at different instants of the six hours before the termination, in any order
\* and with any of three prices; at most one call fails
MaxPriceBatch == 1
MaxSamples == 3

PriceTimes == {Clock - 600000 - 1000000 * k : k \in 1..MaxSamples}

PriceValues == {46000, 46100, 46300}

PriceHistories ==
    UNION { { [p \in 1..m |-> PriceSample(ts[p], pr[p])] :
                ts \in {f \in [1..m -> PriceTimes] :
                           \A a, b \in 1..m : a # b => f[a] # f[b]},
                pr \in [1..m -> PriceValues] } : m \in 0..MaxSamples }

PriceShapes ==
    { <<"t3.micro", Some("ap-south-1a"), Clock - 3000000, Clock - 600000,
        CodeTerminatedNoCapacity>> }

InitPrice ==
    /\ InitScript
    /\ clock = Clock
    /\ provider \in Batches(MaxPriceBatch, PriceShapes)
    /\ faults \in FaultSets(MaxPriceBatch, 1)
    /\ price_feed \in { [t \in InstanceTypes |-> IF t = "t3.micro" THEN h ELSE <<>>] :
                          h \in PriceHistories }

SpecPrice == InitPrice /\ [][Next]_vars

\* Runs that differ in the uptime: at most MaxUptimeBatch recent terminations
\* that lived 0, 29.99, 29.9983, 30, 45, 59.99, 60, 90, 119.99 or 120 minutes;
\* at most one call fails
MaxUptimeBatch == 2

Uptimes ==
    {0, 1799400, 1799900, 1800000, 2700000, 3599400, 3600000, 5400000,
     7199400, 7200000}

UptimeShapes ==
    { <<"t3.micro", Some("ap-south-1a"), Clock - 600000 - u, Clock - 600000,
        CodeTerminatedNoCapacity>> : u \in Uptimes }

InitUptime ==
    /\ InitScript
    /\ clock = Clock
    /\ provider \in Batches(MaxUptimeBatch, UptimeShapes)
    /\ faults \in FaultSets(MaxUptimeBatch, 1)
    /\ price_feed = [t \in InstanceTypes |-> <<>>]

SpecUptime == InitUptime /\ [][Next]_vars

\* Runs that differ in the instant of the termination: the clock reads one
\* minute after an instant around a change of local day (Friday 20:00 UTC,
\* Friday 18:29:59.999 and 18:30 UTC, Sunday 18:29:59.999 and 18:30 UTC,
\* Saturday 12:00 UTC; 1970-01-01 00:00 UTC, instant 0, is a Thursday), every
\* event ended at that instant or one hour before it and was created four
\* hours before it ended
MaxCalendarBatch == 2

HourMillis == 60 * 60 * 1000

CalendarInstants ==
    { (24 + 20) * HourMillis,
      (24 + 18) * HourMillis + 30 * 60 * 1000 - 1,
      (24 + 18) * HourMillis + 30 * 60 * 1000,
      (72 + 18) * HourMillis + 30 * 60 * 1000 - 1,
      (72 + 18) * HourMillis + 30 * 60 * 1000,
      (48 + 12) * HourMillis }

CalendarShapes(t) ==
    { <<"t3.micro", Some("ap-south-1a"), u - 4 * HourMillis, u,
        CodeTerminatedNoCapacity>> : u \in {t, t - HourMillis} }

InitCalendar ==
    /\ InitScript
    /\ \E t \in CalendarInstants :
          /\ clock = t + 60 * 1000
          /\ provider \in Batches(MaxCalendarBatch, CalendarShapes(t))
    /\ faults \in FaultSets(MaxCalendarBatch, 1)
    /\ price_feed = [t \in InstanceTypes |-> <<>>]

SpecCalendar == InitCalendar /\ [][Next]_vars

\* Runs over a batch one event of which may be malformed: up to
\* MaxMalformedBatch recent terminations of either type, at most one of them
\* without its CreateTime
MaxMalformedBatch == 3

MalformedShapes ==
    { <<t, Some("ap-south-1a"), Clock - 3000000, Clock - 600000, CodeTerminatedNoCapacity>> :
        t \in InstanceTypes }

\* The request without its CreateTime
WithoutCreateTime(req) == [f \in DOMAIN req \ {"CreateTime"} |-> req[f]]

MalformedBatches ==
    UNION { { [p \in 1..Len(b) |-> IF p = m THEN WithoutCreateTime(b[p]) ELSE b[p]] :
                m \in 0..Len(b) } :
            b \in Batches(MaxMalformedBatch, MalformedShapes) }

InitMalformed ==
    /\ InitScript
    /\ clock = Clock
    /\ provider \in MalformedBatches
    /\ faults \in FaultSets(MaxMalformedBatch, 1)
    /\ price_feed = [t \in InstanceTypes |-> <<>>]

SpecMalformed == InitMalformed /\ [][Next]_vars

\* Runs over batches that hold more than recent terminations: up to
\* MaxMixedBatch requests of either type, created at MixedEpoch or more than
\* an hour before it, that ended recently, ended before the lookback window,
\* or are fulfilled and running
MaxMixedBatch == 2

MixedEpoch == Clock - 15000000

MixedShapes ==
    { <<t, Some("ap-south-1a"), c, st[1], st[2]>> :
        t \in InstanceTypes,
        c \in {MixedEpoch, MixedEpoch - PopularityDelta - 1},
        st \in { <<Clock - 600000, CodeTerminatedNoCapacity>>,
                 <<Clock - LookbackDelta - 1, CodeTerminatedNoCapacity>>,
                 <<Clock - 600000, CodeFulfilled>> } }

InitMixed ==
    /\ InitScript
    /\ clock = Clock
    /\ provider \in Batches(MaxMixedBatch, MixedShapes)
    /\ faults \in FaultSets(MaxMixedBatch, 1)
    /\ price_feed = [t \in InstanceTypes |-> <<>>]

SpecMixed == InitMixed /\ [][Next]_vars

\* Runs that differ in what the narrative leaves out: up to MaxNarrativeBatch
\* recent terminations of either type, ended for lack of capacity or by the
\* user, the price of each type either without history or rising
MaxNarrativeBatch == 2

NarrativeShapes ==
    { <<t, Some("ap-south-1a"), Clock - 3000000, Clock - 600000, code>> :
        t \in InstanceTypes, code \in {CodeTerminatedNoCapacity, CodeTerminatedByUser} }

NarrativeFeeds ==
    [ InstanceTypes -> { <<>>, <<PriceSample(Clock - 4000000, 46000),
                                 PriceSample(Clock - 2000000, 47000)>> } ]

InitNarrative ==
    /\ InitScript
    /\ clock = Clock
    /\ provider \in Batches(MaxNarrativeBatch, NarrativeShapes)
    /\ faults \in FaultSets(MaxNarrativeBatch, 1)
    /\ price_feed \in NarrativeFeeds

SpecNarrative == InitNarrative /\ [][Next]_vars

----------------------------------------------------------------------------
(* Properties *)

\* The record of the k-th enriched event
Record(k) == termination_logs[k]

\* The records produced so far
Records == 1..Len(termination_logs)

\* C1: every record's InstancePopularity is the number of requests of the batch
\* of the same instance type created in [creation - 60 min, creation], the
\* record's own event included and later ones excluded.
C1_PopularityWindow ==
    \A k \in Records :
        LET e == recent_terminated[k]
        IN  Record(k).InstancePopularity =
                Cardinality({p \in 1..Len(spot_requests) :
                    /\ spot_requests[p].InstanceType = e.InstanceType
                    /\ spot_requests[p].CreateTime >= e.CreateTime - PopularityDelta
                    /\ spot_requests[p].CreateTime <= e.CreateTime})

\* C1, the case of its example: two requests of one type created 10 minutes
\* apart, and the record of the earlier one counts both.
C1_EarlierCountsLater ==
    /\ Len(spot_requests) = 2
    /\ spot_requests[1].InstanceType = spot_requests[2].InstanceType
    /\ spot_requests[1].CreateTime = PopularityEpoch
    /\ spot_requests[2].CreateTime = PopularityEpoch + 600000
    /\ Len(termination_logs) = 2
    /\ Record(1).InstancePopularity = 2
    /\ Record(2).InstancePopularity = 2

\* C2: a run that enriches at least one event and completes has fetched the
\* zone mapping exactly once.
C2_ZoneMappingOnce ==
    (pc = "done" /\ Len(termination_logs) >= 1) => az_calls = 1

\* C2, the case that refutes it: a completed run of two events has fetched the
\* zone mapping twice.
C2_FetchedPerEvent ==
    pc = "done" /\ Len(termination_logs) = 2 /\ az_calls = 2

\* C3: a failure of the price-history lookup or of the zone mapping lookup does
\* not end the run.
C3_LookupFailureNotRaised ==
    ~(pc = "crashed" /\ error \in {"az", "price"})

\* C3, the case that refutes it: the price history of the second event raises,
\* the run ends with the first event's record in memory and no file written.
C3_PriceFailureEndsRun ==
    /\ pc = "crashed"
    /\ error = "price"
    /\ j = 2
    /\ Len(termination_logs) = 1
    /\ file = None

\* What the provider's describe_instance_types answers as first usage class
LookedUpUsageClass(itype) == IF itype = "t3.micro" THEN "on-demand" ELSE "standard"

\* What the provider's offerings say of the pool
LookedUpPool(itype, az) ==
    IF az = Some("ap-south-1a") \/ itype = "t3.micro" THEN "available" ELSE "unavailable"

\* C4: in every record, the fields of a metadata lookup that failed hold the
\* sentinel, the fields of one that answered hold the looked-up value, whatever
\* the other two did; and a run never ends on a metadata lookup: every event
\* before the current one has its record, and a run that ended while enriching
\* ended on the zone mapping or the price history.
C4_MetadataIndependent ==
    /\ \A k \in Records :
        LET r == Record(k)
            t == recent_terminated[k].InstanceType
            az == recent_terminated[k].LaunchedAvailabilityZone
        IN  /\ Raises(k, "net") =>
                r.NetworkPerformance = None /\ r.NetworkCardIndex = None
            /\ ~Raises(k, "net") =>
                /\ r.NetworkPerformance = Some(NetworkPerformanceOf(t))
                /\ r.NetworkCardIndex = DefaultNetworkCardIndexOf(t)
            /\ Raises(k, "cpu") => r.CpuCreditsType = "unknown"
            /\ ~Raises(k, "cpu") => r.CpuCreditsType = LookedUpUsageClass(t)
            /\ Raises(k, "pool") => r.PoolUtilizationClass = "unknown"
            /\ ~Raises(k, "pool") => r.PoolUtilizationClass = LookedUpPool(t, az)
    /\ pc \in {"enrich", "save", "done"} => Len(termination_logs) = j - 1
    /\ (pc = "crashed" /\ error # "fetch") =>
        /\ Len(termination_logs) = j - 1
        /\ Raises(j, "az") \/ Raises(j, "price")

\* C4, its case: the network and the pool lookups of the first event failed,
\* its CPU lookup answered, and its record holds two sentinels and one value.
C4_TwoOfThreeFailed ==
    /\ Len(termination_logs) >= 1
    /\ Raises(1, "net") /\ Raises(1, "pool") /\ ~Raises(1, "cpu")
    /\ Record(1).NetworkPerformance = None
    /\ Record(1).PoolUtilizationClass = "unknown"
    /\ Record(1).CpuCreditsType \in {"on-demand", "standard"}

\* The number of recent terminations in zone az
InZone(az) ==
    Cardinality({p \in 1..Len(recent_terminated) :
                    recent_terminated[p].LaunchedAvailabilityZone = az})

\* The snapshot is in use: the counting loop has ended
Counted == pc \in {"enrich", "save", "done"}

\* C5: once counted, the zone mapping has a bucket for each zone of a recent
\* termination, holding the number of recent terminations in it, and none for
\* the missing zone; a record of an event without zone is attributed 0.
C5_NoBucketForMissingZone ==
    /\ Counted =>
        /\ None \notin DOMAIN az_counter
        /\ \A z \in DOMAIN az_counter : az_counter[z] = InZone(z)
    /\ \A k \in Records :
        Record(k).AvailabilityZone = None => Record(k).AZInterruptionRate = 0

\* C5, the case that refutes it: two recent terminations without zone, a
\* bucket for the missing zone holding 2, and a record attributed that count.
C5_MissingZoneBucket ==
    /\ Counted
    /\ None \in DOMAIN az_counter
    /\ az_counter[None] = 2
    /\ \E k \in Records :
        Record(k).AvailabilityZone = None /\ Record(k).AZInterruptionRate = 2

\* C6: once computed, region_demand_score is the number of terminated requests
\* of the batch whose status-update time t satisfies now - lookback <= t <= now.
C6_RegionCountIsWindow ==
    pc \in {"count", "enrich", "save", "done"} =>
        region_demand_score =
            Cardinality({p \in 1..Len(spot_requests) :
                /\ HasTerminated(spot_requests[p].StatusCode)
                /\ now - LookbackDelta <= spot_requests[p].UpdateTime
                /\ spot_requests[p].UpdateTime <= now})

\* C6, its case: of three terminations one is 1 ms older than the window,
\* one at its start and one inside, and two are counted.
C6_BoundaryCounted ==
    /\ pc = "done"
    /\ Len(spot_requests) = 3
    /\ \A p \in 1..3 : HasTerminated(spot_requests[p].StatusCode)
    /\ \E p \in 1..3 : spot_requests[p].UpdateTime = now - LookbackDelta - 1
    /\ \E p \in 1..3 : spot_requests[p].UpdateTime = now - LookbackDelta
    /\ \E p \in 1..3 : spot_requests[p].UpdateTime = now
    /\ region_demand_score = 2

\* The snapshot covers the whole batch
SnapshotComplete ==
    /\ region_demand_score = Len(recent_terminated)
    /\ DOMAIN az_counter =
        {recent_terminated[p].LaunchedAvailabilityZone : p \in 1..Len(recent_terminated)}
    /\ \A z \in DOMAIN az_counter : az_counter[z] = InZone(z)

\* C7: from the first enrichment on the snapshot covers the whole batch, and no
\* step taken from then on changes region_demand_score or az_counter.
C7_AggregateThenMap ==
    /\ [](Counted => SnapshotComplete)
    /\ [][Counted => UNCHANGED <<region_demand_score, az_counter>>]_vars

\* C7, its case: the last of at least three events is about to be enriched,
\* the events lie in several zones, and the snapshot is the complete one.
C7_LastEventReadsSnapshot ==
    /\ pc = "enrich"
    /\ j = Len(recent_terminated)
    /\ j >= 3
    /\ Len(termination_logs) = j - 1
    /\ Cardinality(DOMAIN az_counter) >= 2
    /\ SnapshotComplete

\* C8: every record carries the snapshot's region count and the count of its
\* event's zone, 0 for a zone without bucket; with 5 recent terminations, 3 of
\* them in zone ap-south-1a, every record carries 5 and every record of that
\* zone carries 3.
C8_RecordCarriesSnapshot ==
    /\ \A k \in Records :
        /\ Record(k).RegionDemandScore = region_demand_score
        /\ Record(k).AZInterruptionRate =
            IF Record(k).AvailabilityZone \in DOMAIN az_counter
            THEN az_counter[Record(k).AvailabilityZone] ELSE 0
    /\ (Len(recent_terminated) = 5 /\ InZone(Some("ap-south-1a")) = 3) =>
        \A k \in Records :
            /\ Record(k).RegionDemandScore = 5
            /\ Record(k).AvailabilityZone = Some("ap-south-1a") =>
                Record(k).AZInterruptionRate = 3

\* C8, its case: a completed run over 5 recent terminations, 3 of them in zone
\* ap-south-1a and one without zone.
C8_FiveThree ==
    /\ pc = "done"
    /\ Len(termination_logs) = 5
    /\ InZone(Some("ap-south-1a")) = 3
    /\ InZone(None) = 1
    /\ \E k \in Records :
        /\ Record(k).AvailabilityZone = Some("ap-south-1a")
        /\ Record(k).AZInterruptionRate = 3
        /\ Record(k).RegionDemandScore = 5

\* The request identifiers of a sequence of requests or records
Ids(seq) == {seq[p].SpotInstanceRequestId : p \in 1..Len(seq)}

\* C9: when the run is done the file holds one record per enriched event: as
\* many records as recent terminations, with pairwise distinct request
\* identifiers, which are those of the recent terminations.
C9_OneRecordPerEvent ==
    pc = "done" =>
        /\ file # None
        /\ Len(file[1]) = Len(recent_terminated)
        /\ Cardinality(Ids(file[1])) = Len(file[1])
        /\ Ids(file[1]) = Ids(recent_terminated)
        /\ Ids(recent_terminated) =
            {spot_requests[p].SpotInstanceRequestId :
                p \in {q \in 1..Len(spot_requests) :
                          IsRecentTerminated(spot_requests[q], cutoff_time)}}

\* C9, its case: a completed run whose batch of three holds two recent
\* terminations, with two records in the file.
C9_TwoOfThree ==
    /\ pc = "done"
    /\ Len(spot_requests) = 3
    /\ Len(recent_terminated) = 2
    /\ Len(file[1]) = 2

\* The position in the provider's batch of the request with identifier id
PositionOf(id) ==
    CHOOSE p \in 1..Len(spot_requests) : spot_requests[p].SpotInstanceRequestId = id

\* C10: in the file, records are in the order of their events in the
\* provider's batch.
C10_InputOrder ==
    pc = "done" =>
        \A a, b \in 1..Len(file[1]) :
            a < b => PositionOf(file[1][a].SpotInstanceRequestId)
                       < PositionOf(file[1][b].SpotInstanceRequestId)

\* C10, its case: the first and the third request of the batch are recent
\* terminations, the second is not, and the file holds their records in
\* that order.
C10_FirstThenThird ==
    /\ pc = "done"
    /\ Len(spot_requests) = 3
    /\ Len(file[1]) = 2
    /\ file[1][1].SpotInstanceRequestId = spot_requests[1].SpotInstanceRequestId
    /\ file[1][2].SpotInstanceRequestId = spot_requests[3].SpotInstanceRequestId

\* C11: the file is written at most once, by the step that follows the
\* enrichment of the last event, and holds every record; a run that an
\* exception ended (the batch listing's included) has written nothing.
C11_WrittenOnceAtEnd ==
    /\ [](file # None =>
            /\ pc = "done"
            /\ file = Some(termination_logs)
            /\ Len(termination_logs) = Len(recent_terminated))
    /\ [](pc = "crashed" => file = None)
    /\ [][file' # file => (file = None /\ pc = "save" /\ EnrichLoopDone)]_vars

\* C11, its case: a run over two events has written its file, with both records.
C11_WrittenAfterLast ==
    /\ pc = "done"
    /\ Len(recent_terminated) = 2
    /\ file = Some(termination_logs)
    /\ Len(file[1]) = 2

\* The price history the provider returned for the k-th enriched event
HistoryOf(k) == price_feed[recent_terminated[k].InstanceType]

\* The sample of a non-empty history with the earliest, the latest timestamp
Earliest(h) ==
    CHOOSE x \in {h[p] : p \in 1..Len(h)} :
        \A q \in 1..Len(h) : x.Timestamp <= h[q].Timestamp

Latest(h) ==
    CHOOSE x \in {h[p] : p \in 1..Len(h)} :
        \A q \in 1..Len(h) : x.Timestamp >= h[q].Timestamp

\* C12: with a non-empty price history, in whatever order the provider
\* returned it, the record's launch price is the price of the sample with the
\* earliest timestamp and its termination price that of the latest.
C12_FirstAndLastByTime ==
    \A k \in Records :
        HistoryOf(k) # <<>> =>
            /\ Record(k).SpotPriceAtLaunch = Earliest(HistoryOf(k)).SpotPrice
            /\ Record(k).SpotPriceAtTermination = Latest(HistoryOf(k)).SpotPrice

\* C12, its case: three samples returned latest first, at three prices.
C12_ReturnedLatestFirst ==
    /\ Len(termination_logs) = 1
    /\ Len(HistoryOf(1)) = 3
    /\ HistoryOf(1)[1].Timestamp > HistoryOf(1)[2].Timestamp
    /\ HistoryOf(1)[2].Timestamp > HistoryOf(1)[3].Timestamp
    /\ Record(1).SpotPriceAtLaunch = HistoryOf(1)[3].SpotPrice
    /\ Record(1).SpotPriceAtTermination = HistoryOf(1)[1].SpotPrice
    /\ Record(1).SpotPriceAtLaunch # Record(1).SpotPriceAtTermination

\* C13: with an empty price history, launch price and termination price are
\* the requested spot price, trend and dispersion are 0.
C13_EmptyHistoryFallsBack ==
    \A k \in Records :
        HistoryOf(k) = <<>> =>
            /\ Record(k).SpotPriceAtLaunch = recent_terminated[k].SpotPrice
            /\ Record(k).SpotPriceAtTermination = recent_terminated[k].SpotPrice
            /\ Record(k).SpotPriceTrend = 0
            /\ Record(k).PriceVariance = 0

\* C13, its case: requested price 0.045, empty history.
C13_Requested45000 ==
    /\ Len(termination_logs) = 1
    /\ HistoryOf(1) = <<>>
    /\ recent_terminated[1].SpotPrice = 45000
    /\ Record(1).SpotPriceAtLaunch = 45000
    /\ Record(1).SpotPriceAtTermination = 45000

\* The sum over the samples of the k-th event's history of the squared
\* deviation from the record's launch price
SquaredDeviations(k) ==
    SumSeq([p \in 1..Len(HistoryOf(k)) |->
              (HistoryOf(k)[p].SpotPrice - Record(k).SpotPriceAtLaunch)
              * (HistoryOf(k)[p].SpotPrice - Record(k).SpotPriceAtLaunch)])

\* C14 as stated: with a non-empty history, dispersion squared times the
\* number of samples is the sum of the squared deviations from the launch price.
C14_ExactRms ==
    \A k \in Records :
        HistoryOf(k) # <<>> =>
            Record(k).PriceVariance * Record(k).PriceVariance * Len(HistoryOf(k))
                = SquaredDeviations(k)

\* C14 as amended: with a non-empty history, dispersion is the root mean square
\* of the deviations from the launch price rounded to the sixth decimal: it is
\* within half a micro-dollar of that root,
\* (2 d - 1)^2 n <= 4 S <= (2 d + 1)^2 n.
C14_RoundedRms ==
    \A k \in Records :
        HistoryOf(k) # <<>> =>
            LET d == Record(k).PriceVariance
                n == Len(HistoryOf(k))
                S == SquaredDeviations(k)
            IN  /\ d >= 0
                /\ 4 * S <= (2 * d + 1) * (2 * d + 1) * n
                /\ d > 0 => (2 * d - 1) * (2 * d - 1) * n <= 4 * S

\* C14, its case: three samples, a dispersion that is not 0 and whose square
\* times 3 is not the sum of the squared deviations.
C14_RoundedAway ==
    /\ Len(termination_logs) = 1
    /\ Len(HistoryOf(1)) = 3
    /\ Record(1).PriceVariance > 0
    /\ Record(1).PriceVariance * Record(1).PriceVariance * 3 # SquaredDeviations(1)

\* C15: every record has exactly one of the three classes: VeryShort exactly
\* when its uptime is below 30 minutes, Short exactly from 30 up to below 120,
\* Long exactly from 120 (uptimes in hundredths of a minute).
C15_ClassThresholds ==
    \A k \in Records :
        LET u == Record(k).UptimeMinutes
            c == Record(k).UptimeClass
        IN  /\ c \in {"VeryShort", "Short", "Long"}
            /\ c = "VeryShort" <=> u < 3000
            /\ c = "Short" <=> (3000 <= u /\ u < 12000)
            /\ c = "Long" <=> u >= 12000
            /\ u = 2999 => c = "VeryShort"
            /\ u = 3000 => c = "Short"
            /\ u = 11999 => c = "Short"
            /\ u = 12000 => c = "Long"

\* C15, its case: one event lived exactly 30.00 minutes and is Short, another
\* exactly 120.00 minutes and is Long.
C15_BoundariesInUpperClass ==
    /\ Len(termination_logs) = 2
    /\ Record(1).UptimeMinutes = 3000 /\ Record(1).UptimeClass = "Short"
    /\ Record(2).UptimeMinutes = 12000 /\ Record(2).UptimeClass = "Long"

\* C16: a record is short-lived exactly when its uptime is below 60 minutes,
\* whatever its class: 90 minutes is Short and not short-lived, 45 minutes is
\* Short and short-lived.
C16_ShortLivedThreshold ==
    \A k \in Records :
        LET u == Record(k).UptimeMinutes
        IN  /\ Record(k).IsShortLived <=> u < 6000
            /\ u = 9000 => (Record(k).UptimeClass = "Short" /\ ~Record(k).IsShortLived)
            /\ u = 4500 => (Record(k).UptimeClass = "Short" /\ Record(k).IsShortLived)

\* C16, its case: two Short events, 90 minutes not short-lived, 45 minutes
\* short-lived.
C16_ShortBothWays ==
    /\ Len(termination_logs) = 2
    /\ Record(1).UptimeMinutes = 9000
    /\ Record(1).UptimeClass = "Short" /\ ~Record(1).IsShortLived
    /\ Record(2).UptimeMinutes = 4500
    /\ Record(2).UptimeClass = "Short" /\ Record(2).IsShortLived

\* C17: every record's uptime is the time from creation to status update in
\* minutes rounded to two decimals (within half a hundredth of a minute, 300 ms,
\* of it), and is not negative when the update is not before the creation.
C17_UptimeRounded ==
    \A k \in Records :
        LET e  == recent_terminated[k]
            ms == e.UpdateTime - e.CreateTime
            u  == Record(k).UptimeMinutes
        IN  /\ 600 * u - ms <= 300
            /\ ms - 600 * u <= 300
            /\ e.UpdateTime >= e.CreateTime => u >= 0

\* C17, its case: an event that lived 29 min 59.9 s has uptime 30.00.
C17_RoundedUp ==
    \E k \in Records :
        /\ recent_terminated[k].UpdateTime - recent_terminated[k].CreateTime = 1799900
        /\ Record(k).UptimeMinutes = 3000

\* The calendar of the instants of the calendar runs in the zone of the script,
\* UTC+5:30: <<instant, day of the week, hour>>
CalendarFacts ==
    { <<158400000, "Saturday", 1>>,  <<154800000, "Saturday", 0>>,
      <<152999999, "Friday", 23>>,   <<149399999, "Friday", 22>>,
      <<153000000, "Saturday", 0>>,  <<149400000, "Friday", 23>>,
      <<325799999, "Sunday", 23>>,   <<322199999, "Sunday", 22>>,
      <<325800000, "Monday", 0>>,    <<322200000, "Sunday", 23>>,
      <<216000000, "Saturday", 17>>, <<212400000, "Saturday", 16>> }

\* C18: the day of the week and the hour of every record are those of the
\* instant the event ended (its status update, not its creation) in UTC+5:30,
\* so an event that ended on Friday 20:00 UTC is of Saturday, hour 1; the
\* record is of a weekend exactly when that day is Saturday or Sunday.
C18_CalendarOfTermination ==
    \A k \in Records :
        LET e == recent_terminated[k]
            r == Record(k)
        IN  /\ \A f \in CalendarFacts :
                  e.UpdateTime = f[1] => (r.DayOfWeek = f[2] /\ r.HourOfDay = f[3])
            /\ e.UpdateTime = (24 + 20) * HourMillis
                  => (r.DayOfWeek = "Saturday" /\ r.HourOfDay = 1)
            /\ r.IsWeekend <=> r.DayOfWeek \in {"Saturday", "Sunday"}

\* C18, its case: an event created on Friday 16:00 UTC (Friday, hour 21 in
\* UTC+5:30) that ended on Friday 20:00 UTC has a record of Saturday, hour 1,
\* a weekend.
C18_FridayEveningIsSaturday ==
    \E k \in Records :
        /\ recent_terminated[k].UpdateTime = (24 + 20) * HourMillis
        /\ recent_terminated[k].CreateTime = (24 + 16) * HourMillis
        /\ Record(k).DayOfWeek = "Saturday"
        /\ Record(k).HourOfDay = 1
        /\ Record(k).IsWeekend

\* C19: in the text of every record, a field that is null (no instance
\* identifier, no zone, a network performance that could not be looked up) is
\* not rendered as the representation of the null value.
C19_NullNotRendered ==
    \A k \in Records :
        LET r == Record(k)
        IN  /\ r.InstanceId = None => r.Description[Slot(1)] # "None"
            /\ r.AvailabilityZone = None
                  => (r.Description[Slot(3)] # "None" /\ r.Description[Slot(14)] # "None")
            /\ r.NetworkPerformance = None => r.Description[Slot(4)] # "None"

\* C19, its case: the network performance of an event could not be looked up,
\* its record is produced and the text reads 'None' where the network
\* performance goes.
C19_NoneInText ==
    \E k \in Records :
        /\ Raises(k, "net")
        /\ Record(k).NetworkPerformance = None
        /\ Record(k).Description[Slot(4)] = "None"

\* The recent terminations of a run, from what the provider lists and the
\* clock reads
InputEvents == SelectSeq(provider,
    LAMBDA req : HasTerminated(req.StatusCode)
                    /\ req.UpdateTime >= clock - LookbackDelta)

\* The number of recent terminations of a run in the zone of the k-th
InputZoneCount(k) ==
    Cardinality({ p \in 1..Len(InputEvents) :
        InputEvents[p].LaunchedAvailabilityZone
            = InputEvents[k].LaunchedAvailabilityZone })

\* The record of the k-th recent termination, from the inputs of the run alone:
\* the batch, the clock and the provider's answers
InputRecord(k) ==
    enrich_termination_data(InputEvents[k], provider, Len(InputEvents),
                            InputZoneCount(k), k)

\* An event or a record without what identifies it
Anonymous(r) ==
    [ f \in DOMAIN r |->
        IF f = "InstanceId" THEN None
        ELSE IF f = "SpotInstanceRequestId" THEN 0
        ELSE IF f = "Description" THEN [r[f] EXCEPT ![Slot(1)] = 0]
        ELSE r[f] ]

\* The k-th and the l-th enriched event differ in their identifiers only, and
\* the provider answers their lookups alike
SameInputs(k, l) ==
    /\ Anonymous(recent_terminated[k]) = Anonymous(recent_terminated[l])
    /\ \A lookup \in Lookups : Raises(k, lookup) <=> Raises(l, lookup)

\* C20: the records of a run are a function of its inputs, the frozen batch,
\* the 'now' reference and the answers of the provider: in every state the
\* k-th record is the enrichment of the k-th recent termination computed from
\* these inputs alone, and a run that is done has written exactly these
\* records in this order, so two runs over the same inputs produce the same
\* sequence of records; no record depends on what the enrichment of an
\* earlier event left behind: two events of a run that differ in their
\* identifiers only get records that differ in the identifiers only.
C20_FunctionOfInputs ==
    /\ Len(termination_logs) <= Len(InputEvents)
    /\ \A k \in Records : Record(k) = InputRecord(k)
    /\ pc = "done" =>
          /\ file # None
          /\ Len(file[1]) = Len(InputEvents)
          /\ \A k \in 1..Len(InputEvents) : file[1][k] = InputRecord(k)
    /\ \A k, l \in Records :
          SameInputs(k, l) => Anonymous(Record(k)) = Anonymous(Record(l))

\* C20, its case: a run over two events that differ in their identifiers only,
\* the network lookup failing for both, is done; the second record is the
\* first but for the identifiers.
C20_TwinsAgree ==
    /\ pc = "done"
    /\ Len(termination_logs) = 2
    /\ Raises(1, "net") /\ Raises(2, "net")
    /\ SameInputs(1, 2)
    /\ Record(1).SpotInstanceRequestId # Record(2).SpotInstanceRequestId
    /\ Anonymous(Record(1)) = Anonymous(Record(2))
    /\ file = Some(<<InputRecord(1), InputRecord(2)>>)

\* C21: the events read from the provider are never changed: once fetched, the
\* batch is what the provider returned and no later step writes it; every
\* event of the filtered batch is an event of the provider's batch, and once
\* filtered the filtered batch is not written either, whatever number of
\* events has been counted or enriched.
C21_SourceEventsUnchanged ==
    /\ []((pc # "fetch" /\ error # "fetch") => spot_requests = provider)
    /\ [](\A k \in 1..Len(recent_terminated) :
            \E p \in 1..Len(provider) : recent_terminated[k] = provider[p])
    /\ [][pc # "fetch" => spot_requests' = spot_requests]_vars
    /\ [][pc \notin {"fetch", "now", "filter"}
            => recent_terminated' = recent_terminated]_vars

\* C21, its case: a run over three requests, two of them recent terminations,
\* has enriched both and is done; the batch is still the provider's.
C21_BatchIntactAfterRun ==
    /\ pc = "done"
    /\ Len(provider) = 3
    /\ Len(termination_logs) = 2
    /\ spot_requests = provider
    /\ \A k \in 1..2 : \E p \in 1..3 : recent_terminated[k] = provider[p]

\* Some event of the filtered batch has no creation time
SomeMalformed == \E k \in 1..Len(recent_terminated) : lacks_create_time(recent_terminated[k])

\* C22: a malformed event is not handled per event: when an event of the
\* filtered batch has no creation time, its enrichment ends the run with an
\* exception (the KeyError, or the one of the zone mapping called before the
\* creation time is read), the run never reaches the writing of the output
\* and the file is never written, whatever was enriched before.
C22_MalformedEndsRun ==
    /\ [](SomeMalformed => (file = None /\ pc \notin {"save", "done"}))
    /\ [][(pc = "enrich" /\ ~EnrichLoopDone /\ lacks_create_time(recent_terminated[j]))
            => (pc' = "crashed" /\ error' \in {"az", "KeyError"}
                /\ file' = None /\ termination_logs' = termination_logs)]_vars

\* C22, its case: the second of two events has no creation time; the first,
\* of the other type, was enriched; the run ended with a KeyError, one record
\* in memory and no file.
C22_SecondMalformed ==
    /\ pc = "crashed"
    /\ error = "KeyError"
    /\ Len(recent_terminated) = 2
    /\ ~lacks_create_time(recent_terminated[1])
    /\ lacks_create_time(recent_terminated[2])
    /\ Len(termination_logs) = 1
    /\ file = None

\* C23: the uptime class and the short-lived flag of every record agree at the
\* extremes: a VeryShort record is short-lived, a Long record is not, so only
\* a Short record can carry either value of the flag.
C23_ClassAndFlagAgree ==
    \A k \in Records :
        /\ Record(k).UptimeClass = "VeryShort" => Record(k).IsShortLived
        /\ Record(k).UptimeClass = "Long" => ~Record(k).IsShortLived
        /\ Record(k).UptimeClass \in {"VeryShort", "Short", "Long"}

\* C23, its case: a run with a VeryShort, short-lived record and a Long record
\* that is not short-lived.
C23_Extremes ==
    /\ Len(termination_logs) = 2
    /\ Record(1).UptimeClass = "VeryShort" /\ Record(1).IsShortLived
    /\ Record(2).UptimeClass = "Long" /\ ~Record(2).IsShortLived

\* The sum of the counts of the buckets of a zone counter
RECURSIVE SumBuckets(_)
SumBuckets(counter) ==
    IF DOMAIN counter = {} THEN 0
    ELSE LET z == CHOOSE x \in DOMAIN counter : TRUE
         IN  counter[z] + SumBuckets([x \in DOMAIN counter \ {z} |-> counter[x]])

\* C24: every record's zone count is at least 1 and at most its region count,
\* and once counted the counts of all buckets of the zone counter, the bucket
\* of the missing zone included, sum to the region count.
C24_ZoneCountsWithinRegion ==
    /\ \A k \in Records :
        /\ 1 <= Record(k).AZInterruptionRate
        /\ Record(k).AZInterruptionRate <= Record(k).RegionDemandScore
    /\ Counted => SumBuckets(az_counter) = region_demand_score

\* C24, its case: four events, two in one zone, one in the other, one without
\* zone: three buckets that sum to 4, and records with zone counts 2 and 1.
C24_ThreeBucketsSumToFour ==
    /\ pc = "done"
    /\ region_demand_score = 4
    /\ Cardinality(DOMAIN az_counter) = 3
    /\ None \in DOMAIN az_counter
    /\ SumBuckets(az_counter) = 4
    /\ \E k, l \in Records :
        /\ Record(k).AZInterruptionRate = 2
        /\ Record(l).AZInterruptionRate = 1
        /\ Record(l).AvailabilityZone = None

\* The provider's request p is of the type of event e and passes the
\* popularity window test of e
PassesPopularityTest(p, e) ==
    /\ provider[p].InstanceType = e.InstanceType
    /\ provider[p].CreateTime >= e.CreateTime - PopularityDelta

\* The provider's request p produces no record: it has not terminated, or it
\* terminated before the lookback window
ProducesNoRecord(p) ==
    \/ ~HasTerminated(provider[p].StatusCode)
    \/ provider[p].UpdateTime < clock - LookbackDelta

\* C25: the popularity of every record counts every request the provider
\* returned that is of the event's type and passes the window test, those
\* that produce no record themselves (not terminated, or terminated before
\* the lookback window) as much as the recent terminations.
C25_CountsEveryRequest ==
    \A k \in Records :
        LET e == recent_terminated[k]
        IN  Record(k).InstancePopularity =
                Cardinality({p \in 1..Len(provider) :
                    PassesPopularityTest(p, e) /\ ~ProducesNoRecord(p)})
              + Cardinality({p \in 1..Len(provider) :
                    PassesPopularityTest(p, e) /\ ProducesNoRecord(p)})

\* C25, its case: a running request and a recent termination of one type,
\* created together; the only record has popularity 2.
C25_RunningRequestCounted ==
    /\ pc = "done"
    /\ Len(provider) = 2
    /\ Len(termination_logs) = 1
    /\ \E p \in 1..2 :
        /\ ~HasTerminated(provider[p].StatusCode)
        /\ PassesPopularityTest(p, recent_terminated[1])
    /\ Record(1).InstancePopularity = 2

\* The fields of a record the narrative is made of
NarrativeFields ==
    { "InstanceId", "InstanceType", "AvailabilityZone", "NetworkPerformance",
      "CpuCreditsType", "SpotPriceAtLaunch", "UptimeMinutes", "UptimeClass",
      "InstancePopularity", "RegionDemandScore", "AZInterruptionRate", "Region",
      "SpotRequestType" }

\* The record that agrees with the k-th on the fields of the narrative and with
\* the l-th on every other field
Hybrid(k, l) ==
    [ f \in DOMAIN Record(l) \ {"Description"} |->
        IF f \in NarrativeFields THEN Record(k)[f] ELSE Record(l)[f] ]

\* C26: the narrative is made of the thirteen fields alone: the record that
\* agrees with a record of the run on them, and takes its price trend,
\* dispersion, termination price, status code and every other field from any
\* record of the run, gets the narrative of the former; and every narrative
\* states that the termination was for lack of spot capacity and that the spot
\* price remained stable.
C26_NarrativeOfThirteenFields ==
    /\ \A k, l \in Records :
        generate_description(Hybrid(k, l)) = Record(k).Description
    /\ \A k \in Records :
        /\ Record(k).Description[2 * 3 - 1]
            = ") was terminated because there was no available spot capacity in zone "
        /\ Record(k).Description[2 * 6 - 1]
            = "' CPU credits. The spot price remained stable at "

\* C26, its case: two records of one run, the first ended by the user with a
\* rising price, the second for lack of capacity with no price history; the
\* first's narrative states the lack of capacity and the stable price, and is
\* also the narrative of the first's thirteen fields with the second's others.
C26_RisingPriceEndedByUser ==
    /\ Len(termination_logs) = 2
    /\ Record(1).StatusCode = CodeTerminatedByUser
    /\ Record(1).SpotPriceTrend > 0
    /\ Record(1).PriceVariance > 0
    /\ Record(1).SpotPriceAtTermination # Record(1).SpotPriceAtLaunch
    /\ Record(2).StatusCode = CodeTerminatedNoCapacity
    /\ Record(2).SpotPriceTrend = 0
    /\ Record(1).Description[2 * 6 - 1]
        = "' CPU credits. The spot price remained stable at "
    /\ Record(1).Description[2 * 3 - 1]
        = ") was terminated because there was no available spot capacity in zone "
    /\ generate_description(Hybrid(1, 2)) = Record(1).Description

----------------------------------------------------------------------------
(* Runs of the migration scripts *)

\* The enrichment script is not run
EnrichmentIdle ==
    /\ provider = <<>>
    /\ clock = Clock
    /\ faults = {}
    /\ price_feed = [t \in InstanceTypes |-> <<>>]
    /\ pc = "idle"
    /\ error = "none"
    /\ spot_requests = <<>>
    /\ now = 0
    /\ cutoff_time = 0
    /\ recent_terminated = <<>>
    /\ region_demand_score = 0
    /\ az_counter = EmptyDict
    /\ i = 0
    /\ j = 0
    /\ termination_logs = <<>>
    /\ az_calls = 0
    /\ file = None

\* The download script before its first statement, the local directory and the
\* target bucket empty
MigrationStart ==
    /\ mpc = "list"
    /\ objects = <<>>
    /\ object_index = 0
    /\ directories = {}
    /\ local_dir = EmptyDict
    /\ downloaded_files = <<>>
    /\ failed_downloads = <<>>
    /\ json_files = {}
    /\ target_bucket = <<>>
    /\ uploaded_keys = <<>>
    /\ failed_files = <<>>

\* At most one failing S3 call in a migration of n objects
S3FaultSets(n) ==
    {{}} \cup {{<<"list", 0>>}} \cup {{<<"get", k>>} : k \in 1..n}
         \cup {{<<"put", k>>} : k \in 1..n}

\* The texts of 1 to n characters of S
Texts(S, n) == UNION {[1..m -> S] : m \in 1..n}

\* The order in which S3 lists keys: by code point, a prefix first
KeyBefore(a, b) ==
    \/ Len(a) < Len(b) /\ SubSeq(b, 1, Len(a)) = a
    \/ \E p \in 1..Len(a) :
        /\ p <= Len(b)
        /\ SubSeq(a, 1, p - 1) = SubSeq(b, 1, p - 1)
        /\ a[p] < b[p]

\* The buckets of at most n objects, in listing order (the keys of a bucket
\* are distinct), with keys of K, contents of B and content types of T
Listings(n, K, B, T) ==
    UNION { { l \in [1..m -> [Key : K, Body : B, ContentType : T]] :
                \A p \in 1..(m - 1) : KeyBefore(l[p].Key, l[p + 1].Key) } :
            m \in 0..n }

TextPlain == <<116, 101, 120, 116, 47, 112, 108, 97, 105, 110>>
TextHtmlUpper == <<84, 69, 88, 84, 47, 72, 84, 77, 76>>
OctetStream == <<97, 112, 112, 108, 105, 99, 97, 116, 105, 111, 110, 47, 111, 99, 116, 101, 116, 45, 115, 116, 114, 101, 97, 109>>

\* Downloads that differ in the keys: up to MaxObjects objects whose keys have
\* up to MaxKeyLen characters among a, '/', '\' and '_' and do not start
\* with '/', of content A or B
MaxKeyLen == 2
MaxObjects == 2

KeyCharacters == {97, Slash, Backslash, Underscore}

DownloadKeys == {k \in Texts(KeyCharacters, MaxKeyLen) : k[1] # Slash}

InitDownload ==
    /\ EnrichmentIdle
    /\ MigrationStart
    /\ bucket \in Listings(MaxObjects, DownloadKeys, {<<65>>, <<66>>}, {Some(TextPlain)})
    /\ s3_faults \in S3FaultSets(MaxObjects)

SpecDownload == InitDownload /\ [][NextMigration]_vars

\* Migrations of one object that differ in its content and content type: up
\* to MaxContentLen bytes among line feed, '"', A, '\' and the bytes A9 and C3
\* (C3 A9 is well-formed UTF-8, A9 or C3 alone is not); the content type is
\* absent, text, JSON or binary
MaxContentLen == 3

ContentBytes == {10, Quote, 65, Backslash, 169, 195}

Contents == {<<>>} \cup Texts(ContentBytes, MaxContentLen)

ContentTypes ==
    {None, Some(TextPlain), Some(TextHtmlUpper), Some(ApplicationJson), Some(OctetStream)}

RoundTripKeys == {<<97>>, <<97, Slash, Quote, Backslash>>}

InitRoundTrip ==
    /\ EnrichmentIdle
    /\ MigrationStart
    /\ bucket \in { <<[Key |-> k, Body |-> b, ContentType |-> t]>> :
                        k \in RoundTripKeys, b \in Contents, t \in ContentTypes }
    /\ s3_faults \in S3FaultSets(1)

SpecRoundTrip == InitRoundTrip /\ [][NextMigration]_vars

----------------------------------------------------------------------------
(* Claims about the migration scripts *)

\* download_all_objects has returned
Downloaded == mpc \in {"downloaded", "upload", "uploaded"}

\* The keys download_all_objects counts as successful
Successful == {objects[p] : p \in 1..Len(objects)}
                  \ {failed_downloads[p] : p \in 1..Len(failed_downloads)}

\* C27: after download_all_objects, every successfully downloaded object has
\* its own JSON file: the file named after its key exists and holds that key,
\* none having been overwritten by the file of another key
C27_OwnFileForEachKey ==
    Downloaded =>
        \A object_key \in Successful :
            /\ json_file_path(object_key) \in DOMAIN local_dir
            /\ json_load(local_dir[json_file_path(object_key)]) # None
            /\ json_load(local_dir[json_file_path(object_key)])[1].metadata.key
                   = object_key

\* Two objects were downloaded without a failure and one file is left
C27_OverwrittenFile ==
    /\ Downloaded
    /\ failed_downloads = <<>>
    /\ Len(downloaded_files) = 2
    /\ downloaded_files[1] = downloaded_files[2]
    /\ Cardinality(DOMAIN local_dir) = 1

\* C28: download followed by upload restores a single object: the JSON file
\* has encoding utf-8, hex or base64, every put_object call carries the
\* original key and, byte for byte, the original content, and when no S3 call
\* fails the migration ends with exactly one such call
C28_RoundTrip ==
    /\ \A f \in DOMAIN local_dir :
        /\ json_load(local_dir[f]) # None
        /\ json_load(local_dir[f])[1].metadata.encoding
               \in {Utf8Name, HexName, Base64Name}
    /\ \A p \in 1..Len(target_bucket) :
        /\ target_bucket[p].Key = bucket[1].Key
        /\ target_bucket[p].Body = bucket[1].Body
    /\ (mpc = "uploaded" /\ s3_faults = {}) => Len(target_bucket) = 1

\* A text object that is not UTF-8 went through hex and came back
C28_HexRestored ==
    /\ mpc = "uploaded"
    /\ Len(target_bucket) = 1
    /\ Utf8Decode(bucket[1].Body) = None
    /\ \E f \in DOMAIN local_dir :
        json_load(local_dir[f])[1].metadata.encoding = HexName
    /\ target_bucket[1].Body = bucket[1].Body

====
